---- MODULE Spec2Model ----
(***************************************************************************)
(* Bar-level backtester: the execution engine (src/src/backtest.py), its   *)
(* execution cost model (src/src/execution.py), the reconstruction of      *)
(* trades and their statistics (src/src/trades.py) and the win rate of the *)
(* performance report (src/src/performance.py, src/src/analyze.py).        *)
(*                                                                         *)
(* Numbers.  The program computes in IEEE doubles.  A number is modelled   *)
(* as an exact rational <<n, d>> in lowest terms with d > 0, and the one   *)
(* special value the engine's control flow depends on, NaN (a missing      *)
(* value: what shift() leaves behind, what notna()/fillna() look for), is  *)
(* <<0, 0>>.  Rounding error of double arithmetic is not modelled.         *)
(*                                                                         *)
(* Series.  A pandas Series/column is a sequence of numbers; the frame's   *)
(* index is the sequence of its labels.  Bar t of the source (0-based) is  *)
(* element t+1 of the sequence.                                            *)
(***************************************************************************)
EXTENDS Integers, Sequences, FiniteSets, TLC

VARIABLES
    pc,        \* position of the call in progress
    data,      \* the caller's input frame (backtest_positions argument)
    args,      \* the call's other arguments
    cfg,       \* backtest_positions local `cfg` (<<>> until line 106 ran)
    df,        \* backtest_positions local `df` (the ledger being built)
    active_return_bar, \* backtest_positions local of that name
    metrics,   \* the metrics dict returned (<<>> until built)
    err,       \* the exception raised ("none" while none)
    cost_in,   \* arguments of a direct apply_execution_costs call
    cost_out,  \* its returned frame
    bt,        \* the caller's ledger and the other arguments of build_trades
    tl,        \* build_trades locals: the sorted series, the scan, the trades
    trades_df, \* the frame build_trades returns (<<>> until it returns)
    stats_in,  \* the argument of trade_stats (<<>> for None)
    stats,     \* the dict trade_stats returns (<<>> until it returns)
    perf_in,   \* the arguments of performance_report
    perf       \* the dict performance_report returns (<<>> until it returns)

vars == <<pc, data, args, cfg, df, active_return_bar, metrics, err, cost_in, cost_out,
          bt, tl, trades_df, stats_in, stats, perf_in, perf>>
btVars == <<data, args, cfg, df, metrics>>
costVars == <<cost_in, cost_out>>
tradeVars == <<bt, tl, trades_df>>
statsVars == <<stats_in, stats, perf_in, perf>>
engineVars == <<btVars, active_return_bar, costVars>>

----------------------------------------------------------------------------
(* Bounds of the model *)

MaxBars == 3
MaxValBars == 1
MaxCostBars == 2

----------------------------------------------------------------------------
(* Rational arithmetic with NaN *)

NaN == <<0, 0>>

IsNaN(x) == x[2] = 0

Abs(i) == IF i < 0 THEN -i ELSE i

RECURSIVE Gcd(_, _)
Gcd(a, b) == IF b = 0 THEN a ELSE Gcd(b, a % b)

Norm(n, d) ==
    IF d = 0 THEN NaN
    ELSE LET s == IF d < 0 THEN -1 ELSE 1
             g == Gcd(Abs(n), Abs(d))
         IN  <<(s * n) \div g, (s * d) \div g>>

R(i) == <<i, 1>>
Q(n, d) == Norm(n, d)

RAdd(x, y) == IF IsNaN(x) \/ IsNaN(y) THEN NaN
              ELSE Norm(x[1] * y[2] + y[1] * x[2], x[2] * y[2])
RNeg(x) == IF IsNaN(x) THEN NaN ELSE <<-x[1], x[2]>>
RSub(x, y) == RAdd(x, RNeg(y))
RMul(x, y) == IF IsNaN(x) \/ IsNaN(y) THEN NaN
              ELSE Norm(x[1] * y[1], x[2] * y[2])
\* x / y; the divisor is never zero in the model (prices are positive)
RDiv(x, y) == IF IsNaN(x) \/ IsNaN(y) THEN NaN
              ELSE Norm(x[1] * y[2], x[2] * y[1])
RAbs(x) == IF IsNaN(x) THEN NaN ELSE <<Abs(x[1]), x[2]>>

\* IEEE comparisons: every ordered comparison with NaN is false, != is true
\* (both sides are brought to the least common denominator)
RLt(x, y) == /\ ~IsNaN(x) /\ ~IsNaN(y)
             /\ LET g == Gcd(x[2], y[2])
                IN  x[1] * (y[2] \div g) < y[1] * (x[2] \div g)
RLe(x, y) == /\ ~IsNaN(x) /\ ~IsNaN(y)
             /\ LET g == Gcd(x[2], y[2])
                IN  x[1] * (y[2] \div g) <= y[1] * (x[2] \div g)
REq(x, y) == ~IsNaN(x) /\ ~IsNaN(y) /\ x = y
RNe(x, y) == ~REq(x, y)

Zero == R(0)
One == R(1)

----------------------------------------------------------------------------
(* pandas Series operations used by the engine.  Each builds its result   *)
(* as a sequence (SubSeq(f, 1, n) is f as a sequence of length n).         *)

\* Series.shift(k): value of bar t-k, NaN where there is none
shift(s, k) ==
    SubSeq([t \in 1..Len(s) |-> IF t - k >= 1 /\ t - k <= Len(s) THEN s[t - k] ELSE NaN], 1, Len(s))

fillna(s, v) ==
    SubSeq([t \in 1..Len(s) |-> IF IsNaN(s[t]) THEN v ELSE s[t]], 1, Len(s))

notna(s) ==
    SubSeq([t \in 1..Len(s) |-> ~IsNaN(s[t])], 1, Len(s))

\* Series.where(cond, other): keeps s where cond holds, other elsewhere
where(s, cond, other) ==
    SubSeq([t \in 1..Len(s) |-> IF cond[t] THEN s[t] ELSE other], 1, Len(s))

\* Series.clip(lower=v) / Series.clip(upper=v); NaN stays NaN
clip_lower(s, v) ==
    SubSeq([t \in 1..Len(s) |-> IF RLt(s[t], v) THEN v ELSE s[t]], 1, Len(s))
clip_upper(s, v) ==
    SubSeq([t \in 1..Len(s) |-> IF RLt(v, s[t]) THEN v ELSE s[t]], 1, Len(s))

SAbs(s) ==
    SubSeq([t \in 1..Len(s) |-> RAbs(s[t])], 1, Len(s))
SSub(a, b) ==
    SubSeq([t \in 1..Len(a) |-> RSub(a[t], b[t])], 1, Len(a))
SAdd(a, b) ==
    SubSeq([t \in 1..Len(a) |-> RAdd(a[t], b[t])], 1, Len(a))
SMul(a, b) ==
    SubSeq([t \in 1..Len(a) |-> RMul(a[t], b[t])], 1, Len(a))
SDiv(a, b) ==
    SubSeq([t \in 1..Len(a) |-> RDiv(a[t], b[t])], 1, Len(a))
SScale(a, c) ==
    SubSeq([t \in 1..Len(a) |-> RMul(a[t], c)], 1, Len(a))
SPlus(a, c) ==
    SubSeq([t \in 1..Len(a) |-> RAdd(a[t], c)], 1, Len(a))

Floor(x) == x[1] \div x[2]

Pow10(d) == IF d = 0 THEN 1 ELSE IF d = 1 THEN 10 ELSE 100

\* numpy round-half-to-even of x to d decimals
RoundHalfEven(x, d) ==
    IF IsNaN(x) THEN NaN
    ELSE LET y == RMul(x, R(Pow10(d)))
             f == Floor(y)
             r == RSub(y, R(f))
             half == Q(1, 2)
             up == IF RLt(half, r) THEN 1
                   ELSE IF RLt(r, half) THEN 0
                   ELSE IF f % 2 = 0 THEN 0 ELSE 1
         IN  RDiv(R(f + up), R(Pow10(d)))

round(s, d) ==
    SubSeq([t \in 1..Len(s) |-> RoundHalfEven(s[t], d)], 1, Len(s))

RECURSIVE cumprod(_)
cumprod(s) ==
    IF Len(s) = 0 THEN <<>>
    ELSE IF Len(s) = 1 THEN <<s[1]>>
    ELSE LET h == cumprod(SubSeq(s, 1, Len(s) - 1))
         IN  Append(h, RMul(h[Len(h)], s[Len(s)]))

\* Series.sum(): NaN entries are skipped, the empty sum is 0
RECURSIVE sum(_)
sum(s) ==
    IF Len(s) = 0 THEN Zero
    ELSE LET r == sum(SubSeq(s, 1, Len(s) - 1))
         IN  IF IsNaN(s[Len(s)]) THEN r ELSE RAdd(r, s[Len(s)])

RECURSIVE isum(_)
isum(s) == IF Len(s) = 0 THEN 0 ELSE isum(SubSeq(s, 1, Len(s) - 1)) + s[Len(s)]

\* Series.mean() of a non-empty series without NaN
mean(s) == RDiv(sum(s), R(Len(s)))

astype_int(b) == IF b THEN 1 ELSE 0

----------------------------------------------------------------------------
(* src/src/execution.py *)

BpsPerUnit == 10000

\* _validate_execution_model without the commission check
_validate_execution_model_no_commission(model) ==
    IF RLt(model.slippage_bps, Zero) THEN "slippage_bps must be >= 0"
    ELSE IF RLt(model.spread_bps, Zero) THEN "spread_bps must be >= 0"
    ELSE IF RLt(model.borrow_cost_annual, Zero) THEN "borrow_cost_annual must be >= 0"
    ELSE IF model.periods_per_year <= 0 THEN "periods_per_year must be > 0"
    ELSE "none"

\* _validate_execution_model: the message of the ValueError raised, or "none"
_validate_execution_model(model) ==
    IF RLt(model.commission_bps, Zero) THEN "commission_bps must be >= 0"
    ELSE IF RLt(model.slippage_bps, Zero) THEN "slippage_bps must be >= 0"
    ELSE IF RLt(model.spread_bps, Zero) THEN "spread_bps must be >= 0"
    ELSE IF RLt(model.borrow_cost_annual, Zero) THEN "borrow_cost_annual must be >= 0"
    ELSE IF model.periods_per_year <= 0 THEN "periods_per_year must be > 0"
    ELSE "none"

\* SameIndex comparing the index of turnover only
SameIndexTurnoverOnly(pos_exec, turnover, active_bar) ==
    pos_exec.index = turnover.index

\* Index.equals of the three argument series (lines 56-58)
SameIndex(pos_exec, turnover, active_bar) ==
    /\ pos_exec.index = turnover.index
    /\ pos_exec.index = active_bar.index

commission(turnover, model) ==
    SScale(turnover, RDiv(model.commission_bps, R(BpsPerUnit)))

\* spread charging the full spread instead of half
spreadFull(turnover, model) ==
    SScale(turnover, RDiv(model.spread_bps, R(BpsPerUnit)))

spread(turnover, model) ==
    SScale(turnover, RDiv(RDiv(model.spread_bps, R(2)), R(BpsPerUnit)))

\* slippage that charges nothing
slippageUncharged(turnover, model) == SScale(turnover, Zero)

slippage(turnover, model) ==
    SScale(turnover, RDiv(model.slippage_bps, R(BpsPerUnit)))

\* borrow charged on long exposure too
borrowAnySide(pos_exec, model) ==
    SScale(SAbs(pos_exec), RDiv(model.borrow_cost_annual, R(model.periods_per_year)))

borrow(pos_exec, model) ==
    SScale(SAbs(clip_upper(pos_exec, Zero)),
           RDiv(model.borrow_cost_annual, R(model.periods_per_year)))

ret_cost(c) ==
    SAdd(SAdd(SAdd(c.cost_commission, c.cost_spread), c.cost_slippage), c.cost_borrow)

\* CostFrame without the active-bar gate
CostFrameUngated(pos_exec, turnover, active_bar, model) ==
    LET c == [cost_commission |-> commission(turnover.values, model),
              cost_spread     |-> spread(turnover.values, model),
              cost_slippage   |-> slippage(turnover.values, model),
              cost_borrow     |-> borrow(pos_exec.values, model)]
    IN  [index           |-> pos_exec.index,
         cost_commission |-> c.cost_commission,
         cost_spread     |-> c.cost_spread,
         cost_slippage   |-> c.cost_slippage,
         cost_borrow     |-> c.cost_borrow,
         ret_cost        |-> ret_cost(c)]

\* the cost frame built by lines 60-73 (arguments are series [index, values])
CostFrame(pos_exec, turnover, active_bar, model) ==
    LET active == active_bar.values
        c == [cost_commission |-> where(commission(turnover.values, model), active, Zero),
              cost_spread     |-> where(spread(turnover.values, model), active, Zero),
              cost_slippage   |-> where(slippage(turnover.values, model), active, Zero),
              cost_borrow     |-> where(borrow(pos_exec.values, model), active, Zero)]
    IN  [index           |-> pos_exec.index,
         cost_commission |-> c.cost_commission,
         cost_spread     |-> c.cost_spread,
         cost_slippage   |-> c.cost_slippage,
         cost_borrow     |-> c.cost_borrow,
         ret_cost        |-> ret_cost(c)]

\* apply_execution_costs without the validation of the model
apply_execution_costs_unvalidated(pos_exec, turnover, active_bar, model) ==
    IF ~SameIndex(pos_exec, turnover, active_bar)
    THEN [err |-> "pos_exec, turnover, and active_return_bar must share the same index",
          out |-> <<>>]
    ELSE [err |-> "none", out |-> <<CostFrame(pos_exec, turnover, active_bar, model)>>]

\* apply_execution_costs: [err, out]; out is <<frame>> when nothing is raised
apply_execution_costs(pos_exec, turnover, active_bar, model) ==
    LET e == _validate_execution_model(model)
    IN  IF e # "none" THEN [err |-> e, out |-> <<>>]
        ELSE IF ~SameIndex(pos_exec, turnover, active_bar)
        THEN [err |-> "pos_exec, turnover, and active_return_bar must share the same index",
              out |-> <<>>]
        ELSE [err |-> "none", out |-> <<CostFrame(pos_exec, turnover, active_bar, model)>>]

----------------------------------------------------------------------------
(* src/src/backtest.py *)

_VALID_SIDE == {"long", "short", "both"}
_VALID_ORDER_POLICY == {"order_proxy_flip2", "rebalance_events"}
_VALID_PRICE_MODE == {"open_to_open", "close_to_close"}

DefaultPeriodsPerYear == 252

\* BacktestConfig taking the legacy cost for the spread
BacktestConfigAsSpread(commission_bps) ==
    [price_mode         |-> "open_to_open",
     signal_lag_bars    |-> 1,
     commission_bps     |-> Zero,
     slippage_bps       |-> Zero,
     spread_bps         |-> commission_bps,
     borrow_cost_annual |-> Zero,
     periods_per_year   |-> 252]

\* the dataclass, with its field defaults
BacktestConfig(commission_bps) ==
    [price_mode         |-> "open_to_open",
     signal_lag_bars    |-> 1,
     commission_bps     |-> commission_bps,
     slippage_bps       |-> Zero,
     spread_bps         |-> Zero,
     borrow_cost_annual |-> Zero,
     periods_per_year   |-> DefaultPeriodsPerYear]

NoFrame == [index |-> <<>>, col |-> <<>>]

Columns(frame) == DOMAIN frame.col

\* frame[name] = values for each name of newcols: adds or replaces columns
SetCols(frame, newcols) == [frame EXCEPT !.col = newcols @@ frame.col]

\* CallersFrame when the local frame is the caller's object itself
CallersFrameShared(frame, local) == local

\* the caller's frame once the function has written to `local`, which is
\* frame.copy() (backtest.py line 110, performance.py line 39): a copy is a
\* new object, so the caller's frame keeps its columns, index and values
CallersFrame(frame, local) == frame

Series(frame, values) == [index |-> frame.index, values |-> values]

\* _validate_config without the lag check
_validate_config_no_lag(config) ==
    IF config.price_mode \notin _VALID_PRICE_MODE
    THEN "price_mode must be 'open_to_open' or 'close_to_close'"
    ELSE IF config.periods_per_year <= 0 THEN "periods_per_year must be > 0"
    ELSE "none"

\* _validate_config: the message of the ValueError raised, or "none"
_validate_config(config) ==
    IF config.price_mode \notin _VALID_PRICE_MODE
    THEN "price_mode must be 'open_to_open' or 'close_to_close'"
    ELSE IF config.signal_lag_bars < 0 THEN "signal_lag_bars must be >= 0"
    ELSE IF config.periods_per_year <= 0 THEN "periods_per_year must be > 0"
    ELSE "none"

required_cols(config) ==
    {"pos_raw"} \cup (IF config.price_mode = "open_to_open" THEN {"Open"} ELSE {"Close"})

\* _validate_inputs: the message of the ValueError raised, or "none"
_validate_inputs(frame, long_or_short, order_policy, config) ==
    IF required_cols(config) \ Columns(frame) # {} THEN "Missing required columns"
    ELSE IF long_or_short \notin _VALID_SIDE
    THEN "long_or_short must be 'long', 'short' or 'both'"
    ELSE IF order_policy \notin _VALID_ORDER_POLICY
    THEN "order_policy must be 'order_proxy_flip2' or 'rebalance_events'"
    ELSE "none"

\* round_pos_decimals is <<>> for None, <<d>> for d decimals
_build_target_position(pos_raw, long_or_short, round_pos_decimals) ==
    LET clipped == IF long_or_short = "long" THEN clip_lower(pos_raw, Zero)
                   ELSE IF long_or_short = "short" THEN clip_upper(pos_raw, Zero)
                   ELSE pos_raw
    IN  IF round_pos_decimals # <<>> THEN round(clipped, round_pos_decimals[1])
        ELSE clipped

\* _compute_order_count counting a flip under either policy
_compute_order_count_any_policy(pos_exec, order_policy) ==
    LET pos_prev == fillna(shift(pos_exec, 1), Zero)
        changed == [t \in 1..Len(pos_exec) |-> RNe(pos_exec[t], pos_prev[t])]
        flipped == [t \in 1..Len(pos_exec) |-> RLt(RMul(pos_prev[t], pos_exec[t]), Zero)]
    IN  [t \in 1..Len(pos_exec) |-> astype_int(changed[t]) + astype_int(flipped[t])]

_compute_order_count(pos_exec, order_policy) ==
    LET pos_prev == fillna(shift(pos_exec, 1), Zero)
        changed == [t \in 1..Len(pos_exec) |-> RNe(pos_exec[t], pos_prev[t])]
        flipped == [t \in 1..Len(pos_exec) |-> RLt(RMul(pos_prev[t], pos_exec[t]), Zero)]
    IN  IF order_policy = "order_proxy_flip2"
        THEN [t \in 1..Len(pos_exec) |-> astype_int(changed[t]) + astype_int(flipped[t])]
        ELSE [t \in 1..Len(pos_exec) |-> astype_int(changed[t])]

_price_column(price_mode) == IF price_mode = "open_to_open" THEN "Open" ELSE "Close"

\* Alias handing over the column of the bar before
AliasOfPreviousBar(column) == fillna(shift(column, 1), Zero)

\* df[alias] = df[canonical]: lines 116 and 151-154
Alias(column) == column

\* PosExec delaying the signal one bar too many
PosExecOffByOne(pos_target, signal_lag_bars) ==
    fillna(shift(pos_target, signal_lag_bars + 1), Zero)

\* line 115
PosExec(pos_target, signal_lag_bars) == fillna(shift(pos_target, signal_lag_bars), Zero)

\* Turnover as the signed change
TurnoverSigned(pos_exec) == SSub(pos_exec, fillna(shift(pos_exec, 1), Zero))

\* lines 118-119
Turnover(pos_exec) == SAbs(SSub(pos_exec, fillna(shift(pos_exec, 1), Zero)))

\* line 123
FwdRet(price) == SPlus(SDiv(shift(price, -1), price), R(-1))

\* line 128
RetGross(pos_exec, fwd_ret, active_bar) == where(SMul(pos_exec, fwd_ret), active_bar, Zero)

\* lines 129-135
ExecutionModel(config) ==
    [commission_bps     |-> config.commission_bps,
     slippage_bps       |-> config.slippage_bps,
     spread_bps         |-> config.spread_bps,
     borrow_cost_annual |-> config.borrow_cost_annual,
     periods_per_year   |-> config.periods_per_year]

\* RetNet adding the cost
RetNetAddsCost(ret_gross, ret_cost_col) == SAdd(ret_gross, ret_cost_col)

\* line 145
RetNet(ret_gross, ret_cost_col) == SSub(ret_gross, ret_cost_col)

\* Equity re-based to 1.0 at the first bar
EquityRebased(ret) ==
    LET e == cumprod(SPlus(ret, One))
    IN  [t \in 1..Len(e) |-> RDiv(e[t], e[1])]

\* lines 147-148
Equity(ret) == cumprod(SPlus(ret, One))

\* Metrics without the guards for an empty ledger and for no trade day
MetricsUnguarded(frame, config, n_rows) ==
    LET turnover == frame.col["turnover"]
        traded == [t \in 1..Len(turnover) |-> astype_int(RLt(Zero, turnover[t]))]
        notional_traded == sum(frame.col["trade_notional"])
        trade_days == isum(traded)
        gross_final == IF n_rows > 0 THEN frame.col["equity_gross"][n_rows] ELSE Zero
        net_final == IF n_rows > 0 THEN frame.col["equity_net"][n_rows] ELSE Zero
        total_cost == sum(frame.col["ret_cost"])
    IN  [final_equity           |-> net_final,
         final_equity_net       |-> net_final,
         final_equity_gross     |-> gross_final,
         notional_traded        |-> notional_traded,
         trade_days             |-> trade_days,
         avg_daily_turnover     |-> RDiv(sum(turnover), R(n_rows)),
         active_day_frac        |-> Q(trade_days, n_rows),
         notional_per_trade_day |-> RDiv(notional_traded, R(trade_days)),
         order_events           |-> isum(frame.col["order_count"]),
         avg_cost_bps_realized  |-> RMul(RDiv(total_cost, notional_traded), R(BpsPerUnit)),
         gross_vs_net_drag      |-> RSub(gross_final, net_final),
         price_mode             |-> config.price_mode,
         signal_lag_bars        |-> config.signal_lag_bars]

\* lines 156-179
Metrics(frame, config, n_rows) ==
    LET turnover == frame.col["turnover"]
        traded == [t \in 1..Len(turnover) |-> astype_int(RLt(Zero, turnover[t]))]
        notional_traded == sum(frame.col["trade_notional"])
        trade_days == isum(traded)
        gross_final == IF n_rows > 0 THEN frame.col["equity_gross"][n_rows] ELSE One
        net_final == IF n_rows > 0 THEN frame.col["equity_net"][n_rows] ELSE One
        total_cost == sum(frame.col["ret_cost"])
    IN  [final_equity           |-> net_final,
         final_equity_net       |-> net_final,
         final_equity_gross     |-> gross_final,
         notional_traded        |-> notional_traded,
         trade_days             |-> trade_days,
         avg_daily_turnover     |-> IF n_rows > 0 THEN mean(turnover) ELSE Zero,
         active_day_frac        |-> IF n_rows > 0 THEN Q(trade_days, n_rows) ELSE Zero,
         notional_per_trade_day |-> IF trade_days > 0
                                    THEN RDiv(notional_traded, R(trade_days)) ELSE Zero,
         order_events           |-> isum(frame.col["order_count"]),
         avg_cost_bps_realized  |-> IF RLt(Zero, notional_traded)
                                    THEN RMul(RDiv(total_cost, notional_traded), R(BpsPerUnit))
                                    ELSE Zero,
         gross_vs_net_drag      |-> RSub(gross_final, net_final),
         price_mode             |-> config.price_mode,
         signal_lag_bars        |-> config.signal_lag_bars]

\* lines 110-148 as one function of the arguments, for a configuration and
\* a frame that pass validation: the columns that decide the net equity
backtest_positions(frame, config, long_or_short, round_pos_decimals) ==
    LET pos_target == _build_target_position(frame.col["pos_raw"], long_or_short,
                                             round_pos_decimals)
        pos_exec == PosExec(pos_target, config.signal_lag_bars)
        turnover == Turnover(pos_exec)
        fwd_ret == FwdRet(frame.col[_price_column(config.price_mode)])
        active == notna(fwd_ret)
        ret_gross == RetGross(pos_exec, fwd_ret, active)
        cost_df == apply_execution_costs(Series(frame, pos_exec), Series(frame, turnover),
                                         Series(frame, active), ExecutionModel(config)).out[1]
        ret_net == RetNet(ret_gross, cost_df.ret_cost)
    IN  [pos_exec          |-> pos_exec,
         turnover          |-> turnover,
         active_return_bar |-> active,
         ret_gross         |-> ret_gross,
         cost_commission   |-> cost_df.cost_commission,
         ret_cost          |-> cost_df.ret_cost,
         ret_net           |-> ret_net,
         equity_net        |-> Equity(ret_net)]

----------------------------------------------------------------------------
(* backtest_positions, step by step *)

\* lines 106-107: resolve the configuration and validate it
ValidateConfig ==
    /\ pc = "call"
    /\ LET c == IF args.config # <<>> THEN args.config[1]
                ELSE BacktestConfig(args.cost_bps)
           e == _validate_config(c)
       IN  /\ cfg' = <<c>>
           /\ err' = e
           /\ pc' = IF e = "none" THEN "config_ok" ELSE "raised"
    /\ UNCHANGED <<data, args, df, active_return_bar, metrics, costVars, tradeVars, statsVars>>

\* line 108
ValidateInputs ==
    /\ pc = "config_ok"
    /\ LET e == _validate_inputs(data, args.long_or_short, args.order_policy, cfg[1])
       IN  /\ err' = e
           /\ pc' = IF e = "none" THEN "inputs_ok" ELSE "raised"
    /\ UNCHANGED <<data, args, cfg, df, active_return_bar, metrics, costVars, tradeVars, statsVars>>

\* lines 110-121: copy the input, then positions, turnover and order counts
BuildPositions ==
    /\ pc = "inputs_ok"
    /\ LET copy == [index |-> data.index, col |-> data.col]
           pos_target == _build_target_position(copy.col["pos_raw"], args.long_or_short,
                                                args.round_pos_decimals)
           pos_exec == PosExec(pos_target, cfg[1].signal_lag_bars)
           turnover == Turnover(pos_exec)
       IN  df' = SetCols(copy,
                   ("pos_target" :> pos_target) @@ ("pos_exec" :> pos_exec) @@
                   ("pos" :> Alias(pos_exec)) @@
                   ("turnover" :> turnover) @@ ("trade_notional" :> turnover) @@
                   ("order_count" :> _compute_order_count(pos_exec, args.order_policy)))
    /\ pc' = "positions"
    /\ data' = CallersFrame(data, df')
    /\ UNCHANGED <<args, cfg, active_return_bar, metrics, err, costVars, tradeVars, statsVars>>

\* lines 123-128: forward price return, active flag, gross return
ForwardReturns ==
    /\ pc = "positions"
    /\ LET fwd_ret == FwdRet(df.col[_price_column(cfg[1].price_mode)])
           active == notna(fwd_ret)
       IN  /\ active_return_bar' = active
           /\ df' = SetCols(df,
                   ("ret_price_fwd" :> fwd_ret) @@
                   ("ret_oo_fwd" :> IF cfg[1].price_mode = "open_to_open" THEN fwd_ret
                                    ELSE [t \in 1..Len(df.index) |-> Zero]) @@
                   ("ret_gross" :> RetGross(df.col["pos_exec"], fwd_ret, active)))
    /\ pc' = "returns"
    /\ data' = CallersFrame(data, df')
    /\ UNCHANGED <<args, cfg, metrics, err, costVars, tradeVars, statsVars>>

\* lines 129-143: the cost model's columns, or the error it raises
ApplyCosts ==
    /\ pc = "returns"
    /\ LET r == apply_execution_costs(Series(df, df.col["pos_exec"]),
                                      Series(df, df.col["turnover"]),
                                      Series(df, active_return_bar),
                                      ExecutionModel(cfg[1]))
       IN  IF r.err # "none"
           THEN /\ err' = r.err
                /\ pc' = "raised"
                /\ df' = df
           ELSE LET cost_df == r.out[1]
                IN  /\ df' = SetCols(df,
                            ("cost_commission" :> cost_df.cost_commission) @@
                            ("cost_spread" :> cost_df.cost_spread) @@
                            ("cost_slippage" :> cost_df.cost_slippage) @@
                            ("cost_borrow" :> cost_df.cost_borrow) @@
                            ("ret_cost" :> cost_df.ret_cost))
                    /\ err' = err
                    /\ pc' = "costs"
    /\ data' = CallersFrame(data, df')
    /\ UNCHANGED <<args, cfg, active_return_bar, metrics, costVars, tradeVars, statsVars>>

\* lines 145-179: net return, equity curves, aliases, metrics; return
Finish ==
    /\ pc = "costs"
    /\ LET ret_net == RetNet(df.col["ret_gross"], df.col["ret_cost"])
           equity_gross == Equity(df.col["ret_gross"])
           equity_net == Equity(ret_net)
           out == SetCols(df,
                   ("ret_net" :> ret_net) @@
                   ("equity_gross" :> equity_gross) @@ ("equity_net" :> equity_net) @@
                   ("gross_strat_ret" :> Alias(df.col["ret_gross"])) @@
                   ("net_strat_ret" :> Alias(ret_net)) @@
                   ("cost" :> Alias(df.col["ret_cost"])) @@
                   ("equity" :> Alias(equity_net)))
       IN  /\ df' = out
           /\ metrics' = <<Metrics(out, cfg[1], Len(out.index))>>
    /\ pc' = "returned"
    /\ data' = CallersFrame(data, df')
    /\ UNCHANGED <<args, cfg, active_return_bar, err, costVars, tradeVars, statsVars>>

----------------------------------------------------------------------------
(* apply_execution_costs called on its own *)

CallApplyExecutionCosts ==
    /\ pc = "call_costs"
    /\ LET r == apply_execution_costs(cost_in.pos_exec, cost_in.turnover,
                                      cost_in.active_return_bar, cost_in.model)
       IN  /\ err' = r.err
           /\ cost_out' = r.out
           /\ pc' = IF r.err = "none" THEN "returned" ELSE "raised"
    /\ UNCHANGED <<btVars, active_return_bar, cost_in, tradeVars, statsVars>>

----------------------------------------------------------------------------
(* src/src/trades.py: build_trades *)

\* the caller's frame lacks a column build_trades needs (lines 30-37): the
\* message of the KeyError raised, or "none"
MissingColumn(frame) ==
    IF "pos" \notin Columns(frame) THEN "Missing column pos. Run backtest first."
    ELSE IF "Open" \notin Columns(frame) THEN "Missing column Open."
    ELSE IF "net_strat_ret" \notin Columns(frame)
    THEN "Missing column net_strat_ret. Run backtest first."
    ELSE IF "gross_strat_ret" \notin Columns(frame)
    THEN "Missing column gross_strat_ret. Run backtest first."
    ELSE "none"

is_monotonic_increasing(index) ==
    \A i \in 1..(Len(index) - 1) : index[i] <= index[i + 1]

\* the row of frame that sort_index puts at place k (labels are unique)
RowAt(index, k) ==
    CHOOSE i \in 1..Len(index) :
        Cardinality({j \in 1..Len(index) : index[j] < index[i]}) + 1 = k

sort_index(frame) ==
    LET n == Len(frame.index)
    IN  [index |-> SubSeq([k \in 1..n |-> frame.index[RowAt(frame.index, k)]], 1, n),
         col   |-> [c \in Columns(frame) |->
                       SubSeq([k \in 1..n |-> frame.col[c][RowAt(frame.index, k)]], 1, n)]]

\* ne comparing the sides only: a change of size on one side is no change
neSide(a, b) ==
    SubSeq([t \in 1..Len(a) |-> (RLt(Zero, a[t]) # RLt(Zero, b[t])) \/
                                (RLt(a[t], Zero) # RLt(b[t], Zero))], 1, Len(a))

\* Series.ne(other), element by element
ne(a, b) == SubSeq([t \in 1..Len(a) |-> RNe(a[t], b[t])], 1, Len(a))

\* index[mask]: the labels at which mask holds, in order
RECURSIVE BoolIndex(_, _)
BoolIndex(index, mask) ==
    IF Len(index) = 0 THEN <<>>
    ELSE LET h == BoolIndex(SubSeq(index, 1, Len(index) - 1), SubSeq(mask, 1, Len(mask) - 1))
         IN  IF mask[Len(index)] THEN Append(h, index[Len(index)]) ELSE h

\* 0-based position of a label in a unique index (index_pos.loc[label])
index_pos(index, label) == (CHOOSE i \in 1..Len(index) : index[i] = label) - 1

\* series.loc[label]
loc_(index, values, label) == values[index_pos(index, label) + 1]

\* (1.0 + seg).prod(); the empty product is 1
RECURSIVE prod1p(_)
prod1p(seg) ==
    IF Len(seg) = 0 THEN One
    ELSE RMul(prod1p(SubSeq(seg, 1, Len(seg) - 1)), RAdd(One, seg[Len(seg)]))

\* iloc taking the bar at b too
ilocInclusive(s, a, b) == SubSeq(s, a + 1, IF b + 1 <= Len(s) THEN b + 1 ELSE Len(s))

\* series.iloc[a:b] for 0 <= a, b <= len
iloc(s, a, b) == SubSeq(s, a + 1, b)

\* float((1.0 + r.iloc[a:b]).prod() - 1.0), lines 129-132 and 137-140
TradeReturn(r, a, b) == RSub(prod1p(iloc(r, a, b)), One)

Side(p) == IF RLt(Zero, p) THEN "long" ELSE "short"

\* OpenTrade taking every trade for a long
OpenTradeLong(t, p_now, price) ==
    ("entry_time" :> t) @@ ("side" :> "long") @@ ("pos_size" :> p_now) @@
    ("entry_px" :> price)

\* the dict of lines 88-93
OpenTrade(t, p_now, price) ==
    ("entry_time" :> t) @@ ("side" :> Side(p_now)) @@ ("pos_size" :> p_now) @@
    ("entry_px" :> price)

\* the dict of lines 73-79
FallbackTrade(t, p_prev, price) ==
    ("entry_time" :> t) @@ ("side" :> Side(p_prev)) @@ ("pos_size" :> p_prev) @@
    ("entry_px" :> price) @@ ("fallback_created" :> "True")

\* a close that stamps the entry time as the exit time
CloseTradeAtEntry(trade, t, price) ==
    ("exit_time" :> trade["entry_time"]) @@ ("exit_px" :> price) @@ trade

\* lines 81-82
CloseTrade(trade, t, price) == ("exit_time" :> t) @@ ("exit_px" :> price) @@ trade

\* CloseTradeAtEnd without the flag
CloseTradeAtEndUnflagged(trade, t_end, price) ==
    ("exit_time" :> t_end) @@ ("exit_px" :> price) @@ trade

\* lines 98-100
CloseTradeAtEnd(trade, t_end, price) ==
    ("exit_time" :> t_end) @@ ("exit_px" :> price) @@ ("closed_by_end" :> "True") @@ trade

\* pd.DataFrame(list of dicts): the columns are the keys of all the dicts
\* and a key a dict lacks is NaN in its row
DataFrame(dicts) ==
    LET columns == UNION {DOMAIN dicts[i] : i \in 1..Len(dicts)}
    IN  [columns |-> columns,
         rows    |-> SubSeq([i \in 1..Len(dicts) |->
                                [c \in columns |-> IF c \in DOMAIN dicts[i] THEN dicts[i][c]
                                                   ELSE "NaN"]], 1, Len(dicts))]

\* lines 108-141 for the row of one trade
TradeRow(row, columns, l, datetime) ==
    LET a == index_pos(l.index, row["entry_time"])
        b == index_pos(l.index, row["exit_time"])
    IN  (IF "closed_by_end" \notin columns THEN ("closed_by_end" :> "False") ELSE <<>>) @@
        ("bars_held" :> b - a) @@
        ("trade_ret_net" :> TradeReturn(l.net_r, a, b)) @@
        ("trade_ret_gross" :> TradeReturn(l.gross_r, a, b)) @@
        (IF datetime THEN ("time_held" :> row["exit_time"] - row["entry_time"]) ELSE <<>>) @@
        row

\* lines 104-143: the frame build_trades returns for the list `trades`
TradesFrame(trades, l, datetime) ==
    LET raw == DataFrame(trades)
    IN  IF Len(trades) = 0 THEN raw
        ELSE [columns |-> raw.columns \cup
                          {"closed_by_end", "bars_held", "trade_ret_net", "trade_ret_gross"} \cup
                          (IF datetime THEN {"time_held"} ELSE {}),
              rows    |-> SubSeq([i \in 1..Len(trades) |->
                                     TradeRow(raw.rows[i], raw.columns, l, datetime)],
                                 1, Len(trades))]

NoCall == [frame |-> NoFrame, datetime |-> FALSE, strict |-> TRUE, close_at_end |-> TRUE]

NoTradeLocals ==
    [index |-> <<>>, pos |-> <<>>, px |-> <<>>, net_r |-> <<>>, gross_r |-> <<>>,
     prev |-> <<>>, points |-> <<>>, k |-> 0, open_trade |-> <<>>, trades |-> <<>>,
     warnings |-> 0]

InconsistentState == "Inconsistent state: trying to close but open_trade is None"

\* lines 42-56: the sorted frame, the series and the change points
ScanLocals(frame) ==
    LET d == IF is_monotonic_increasing(frame.index) THEN frame ELSE sort_index(frame)
        pos == fillna(d.col["pos"], Zero)
        prev == fillna(shift(pos, 1), Zero)
    IN  [index |-> d.index, pos |-> pos, px |-> d.col["Open"],
         net_r |-> fillna(d.col["net_strat_ret"], Zero),
         gross_r |-> fillna(d.col["gross_strat_ret"], Zero),
         prev |-> prev,
         points |-> BoolIndex(d.index, ne(pos, prev)),
         k |-> 1, open_trade |-> <<>>, trades |-> <<>>,
         warnings |-> 0]

\* line 65
Closing(p_prev, p_now) == RNe(p_prev, Zero) /\ RNe(p_now, p_prev)

\* a trade opened only from a flat position
OpeningFromFlatOnly(p_prev, p_now) == RNe(p_now, Zero) /\ REq(p_prev, Zero)

\* line 87
Opening(p_prev, p_now) == RNe(p_now, Zero) /\ RNe(p_now, p_prev)

\* lines 59-93: one iteration of the loop over the change points, on the
\* locals l; raised when strict mode meets a close with no open trade
ScanStep(l, strict) ==
    LET t == l.points[l.k]
        p_prev == loc_(l.index, l.prev, t)
        p_now == loc_(l.index, l.pos, t)
        price == loc_(l.index, l.px, t)
        closing == Closing(p_prev, p_now)
        opening == Opening(p_prev, p_now)
        inconsistent == closing /\ l.open_trade = <<>>
    IN  IF inconsistent /\ strict
        THEN [raised |-> TRUE, l |-> l]
        ELSE LET held == IF inconsistent THEN FallbackTrade(t, p_prev, price)
                         ELSE l.open_trade[1]
                 after_close == IF closing THEN <<>> ELSE l.open_trade
             IN  [raised |-> FALSE,
                  l |-> [l EXCEPT
                           !.k = @ + 1,
                           !.trades = IF closing THEN Append(@, CloseTrade(held, t, price))
                                      ELSE @,
                           !.open_trade = IF opening THEN <<OpenTrade(t, p_now, price)>>
                                          ELSE after_close,
                           !.warnings = IF inconsistent THEN @ + 1 ELSE @]]

\* lines 95-102, once the loop is over
CloseAtEnd(l, close_at_end) ==
    IF l.open_trade # <<>> /\ close_at_end
    THEN [l EXCEPT
            !.trades = Append(@, CloseTradeAtEnd(l.open_trade[1], l.index[Len(l.index)],
                                                 l.px[Len(l.px)])),
            !.open_trade = <<>>]
    ELSE l

\* the loop of lines 59-93 from the locals l on
RECURSIVE Scan(_, _)
Scan(l, strict) ==
    IF l.k > Len(l.points) THEN [raised |-> FALSE, l |-> l]
    ELSE LET s == ScanStep(l, strict)
         IN  IF s.raised THEN s ELSE Scan(s.l, strict)

\* build_trades as a function of its arguments: the error raised, or the
\* frame returned and the number of warnings emitted
build_trades(call) ==
    LET e == MissingColumn(call.frame)
    IN  IF e # "none" THEN [err |-> e, out |-> <<>>, warnings |-> 0]
        ELSE IF Len(call.frame.index) = 0
        THEN [err |-> "none", out |-> <<DataFrame(<<>>)>>, warnings |-> 0]
        ELSE LET s == Scan(ScanLocals(call.frame), call.strict)
                 l == CloseAtEnd(s.l, call.close_at_end)
             IN  IF s.raised
                 THEN [err |-> InconsistentState, out |-> <<>>, warnings |-> 0]
                 ELSE [err |-> "none", out |-> <<TradesFrame(l.trades, l, call.datetime)>>,
                       warnings |-> l.warnings]

\* lines 30-56: column checks, copy, empty frame, sort, the series and the
\* change points
build_trades_enter ==
    /\ pc = "trades_call"
    /\ LET e == MissingColumn(bt.frame)
       IN  IF e # "none"
           THEN /\ pc' = "trades_raised"
                /\ err' = e
                /\ UNCHANGED <<tl, trades_df>>
           ELSE IF Len(bt.frame.index) = 0
           THEN /\ pc' = "trades_returned"
                /\ trades_df' = <<DataFrame(<<>>)>>
                /\ UNCHANGED <<tl, err>>
           ELSE /\ tl' = ScanLocals(bt.frame)
                /\ pc' = "trades_scan"
                /\ UNCHANGED <<err, trades_df>>
    /\ UNCHANGED <<engineVars, bt, statsVars>>

\* lines 59-93: one iteration of the loop over the change points
build_trades_scan ==
    /\ pc = "trades_scan"
    /\ tl.k <= Len(tl.points)
    /\ LET s == ScanStep(tl, bt.strict)
       IN  /\ tl' = s.l
           /\ pc' = IF s.raised THEN "trades_raised" ELSE pc
           /\ err' = IF s.raised THEN InconsistentState ELSE err
    /\ UNCHANGED <<engineVars, bt, trades_df, statsVars>>

\* lines 95-102, once the loop is over
build_trades_close_at_end ==
    /\ pc = "trades_scan"
    /\ tl.k > Len(tl.points)
    /\ tl' = CloseAtEnd(tl, bt.close_at_end)
    /\ pc' = "trades_end"
    /\ UNCHANGED <<engineVars, bt, trades_df, err, statsVars>>

\* lines 104-143: the frame of the trades, with bars_held and the returns
build_trades_return ==
    /\ pc = "trades_end"
    /\ trades_df' = <<TradesFrame(tl.trades, tl, bt.datetime)>>
    /\ pc' = "trades_returned"
    /\ UNCHANGED <<engineVars, bt, tl, err, statsVars>>

----------------------------------------------------------------------------
(* src/src/trades.py: trade_stats *)

\* r[r > 0] and r[r < 0]
wins(r) == SelectSeq(r, LAMBDA x : RLt(Zero, x))
losses(r) == SelectSeq(r, LAMBDA x : RLt(x, Zero))

SNeg(s) == SubSeq([t \in 1..Len(s) |-> RNeg(s[t])], 1, Len(s))

isfinite(x) == ~IsNaN(x)

\* line 167: (r > 0).mean()
p_(r) == RDiv(R(Len(wins(r))), R(Len(r)))

\* lines 168-169
avg_win(r) == IF Len(wins(r)) > 0 THEN mean(wins(r)) ELSE Zero
avg_loss_abs(r) == IF Len(losses(r)) > 0 THEN mean(SNeg(losses(r))) ELSE Zero

\* line 171
payoff(aw, al) == IF RLt(Zero, al) THEN RDiv(aw, al) ELSE NaN

\* line 172
expectancy(p, aw, al) == RSub(RMul(p, aw), RMul(RSub(One, p), al))

\* kelly without the division by the payoff
kellyUndivided(b, p) ==
    IF isfinite(b) /\ RLt(Zero, b) THEN RSub(RMul(b, p), RSub(One, p)) ELSE NaN

\* lines 175-178
kelly(b, p) ==
    IF isfinite(b) /\ RLt(Zero, b) THEN RDiv(RSub(RMul(b, p), RSub(One, p)), b) ELSE NaN

\* lines 147-157
EmptyStats ==
    [n_trades |-> 0, win_rate |-> NaN, avg_win |-> NaN, avg_loss_abs |-> NaN,
     payoff |-> NaN, expectancy |-> NaN, kelly |-> NaN, half_kelly |-> NaN,
     quarter_kelly |-> NaN]

Column(frame, c) == SubSeq([i \in 1..Len(frame.rows) |-> frame.rows[i][c]], 1, Len(frame.rows))

\* lines 162-190
Stats(r) ==
    LET p == p_(r)
        aw == avg_win(r)
        al == avg_loss_abs(r)
        b == payoff(aw, al)
        k == kelly(b, p)
    IN  [n_trades |-> Len(r), win_rate |-> p, avg_win |-> aw, avg_loss_abs |-> al,
         payoff |-> b, expectancy |-> expectancy(p, aw, al),
         kelly |-> IF isfinite(k) THEN k ELSE NaN,
         half_kelly |-> IF isfinite(k) THEN RMul(Q(1, 2), k) ELSE NaN,
         quarter_kelly |-> IF isfinite(k) THEN RMul(Q(1, 4), k) ELSE NaN]

\* trade_stats: [err, out]; the argument is <<>> for None, else <<frame>>
trade_stats(arg) ==
    IF arg = <<>> \/ Len(arg[1].rows) = 0 THEN [err |-> "none", out |-> <<EmptyStats>>]
    ELSE IF "trade_ret_net" \notin arg[1].columns
    THEN [err |-> "Missing column trade_ret_net in trades_df", out |-> <<>>]
    ELSE [err |-> "none", out |-> <<Stats(Column(arg[1], "trade_ret_net"))>>]

----------------------------------------------------------------------------
(* src/src/performance.py: performance_report, the metrics that are      *)
(* rational functions of the returns; CAGR, volatility, Sharpe, Sortino, *)
(* Calmar, skew and kurtosis take roots and are not modelled             *)

\* a win rate taken from the bar returns
WinRateFromBars(report, r) == IF Len(r) = 0 THEN NaN ELSE p_(r)

\* line 74; report is <<>> for None, else <<dict>>; an empty dict is falsy
WinRate(report, r) ==
    IF report # <<>> /\ DOMAIN report[1] # {} /\ "win_rate" \in DOMAIN report[1]
    THEN report[1]["win_rate"]
    ELSE NaN

\* lines 39-43: the local copy, with an equity column if the caller's has
\* none
PerformanceFrame(frame) ==
    IF "equity" \in Columns(frame) THEN frame
    ELSE SetCols(frame,
                 "equity" :> cumprod(SPlus(fillna(frame.col["net_strat_ret"], Zero), One)))

\* lines 39-90: [err, out]
performance_report(frame, report) ==
    LET r == fillna(frame.col["net_strat_ret"], Zero)
        eq == PerformanceFrame(frame).col["equity"]
    IN  IF Len(eq) = 0
        THEN [err |-> "IndexError: single positional indexer is out-of-bounds", out |-> <<>>]
        ELSE [err |-> "none",
              out |-> <<[total_return |-> RSub(eq[Len(eq)], One),
                         WinRate      |-> WinRate(report, r),
                         n_periods    |-> Len(r)]>>]

NoPerfIn == [frame |-> NoFrame, hand_stats |-> FALSE, report |-> <<>>]

\* trade_stats(trades), as analyze_backtest calls it (analyze.py line 8)
call_trade_stats ==
    /\ pc = "stats_call"
    /\ LET s == trade_stats(stats_in)
       IN  /\ err' = s.err
           /\ stats' = s.out
           /\ pc' = IF s.err = "none" THEN "stats_returned" ELSE "stats_raised"
    /\ UNCHANGED <<engineVars, tradeVars, stats_in, perf_in, perf>>

\* performance_report(data, trade_stats_report = the report of trade_stats)
\* as analyze_backtest calls it (analyze.py line 9), or with the report the
\* caller chose to hand over
call_performance_report ==
    /\ pc = "stats_returned"
    /\ LET f == performance_report(perf_in.frame,
                                   IF perf_in.hand_stats THEN stats ELSE perf_in.report)
       IN  /\ err' = f.err
           /\ perf' = f.out
           /\ pc' = IF f.err = "none" THEN "perf_returned" ELSE "perf_raised"
    /\ perf_in' = [perf_in EXCEPT !.frame = CallersFrame(@, PerformanceFrame(@))]
    /\ UNCHANGED <<engineVars, tradeVars, stats_in, stats>>

InitNoStats ==
    /\ stats_in = <<>>
    /\ stats = <<>>
    /\ perf_in = NoPerfIn
    /\ perf = <<>>

InitNoTrades ==
    /\ bt = NoCall
    /\ tl = NoTradeLocals
    /\ trades_df = <<>>

----------------------------------------------------------------------------
(* Inputs *)

Seqs(S, n) == [1..n -> S]

\* the default RangeIndex 0..n-1
RangeIndex(n) == [t \in 1..n |-> t - 1]

Frame(cols, n, open, close, raw) ==
    [index |-> RangeIndex(n),
     col   |-> [c \in cols |-> IF c = "Open" THEN open
                               ELSE IF c = "Close" THEN close ELSE raw]]

AllCols == {"Open", "Close", "pos_raw"}

\* a bar's <<Open, Close>>: both move, in opposite directions, so that the
\* price mode decides the return
PriceBars == {<<R(1), R(2)>>, <<R(2), R(1)>>}

Signals == {R(-1), R(0), R(1)}
FineSignals == {R(-1), R(0), R(1), Q(3, 2)}

Frames(cols, n, prices, signals) ==
    {Frame(cols, n, [t \in 1..n |-> p[t][1]], [t \in 1..n |-> p[t][2]], raw) :
        p \in Seqs(prices, n), raw \in Seqs(signals, n)}

Args(config, side, rnd, policy, cost_bps) ==
    [config |-> config, long_or_short |-> side, round_pos_decimals |-> rnd,
     order_policy |-> policy, cost_bps |-> cost_bps]

Config(mode, lag, rates) ==
    [price_mode         |-> mode,
     signal_lag_bars    |-> lag,
     commission_bps     |-> rates.commission_bps,
     slippage_bps       |-> rates.slippage_bps,
     spread_bps         |-> rates.spread_bps,
     borrow_cost_annual |-> rates.borrow_cost_annual,
     periods_per_year   |-> rates.periods_per_year]

Rates(c, sl, sp, b, ppy) ==
    [commission_bps |-> c, slippage_bps |-> sl, spread_bps |-> sp,
     borrow_cost_annual |-> b, periods_per_year |-> ppy]

NoRates == Rates(Zero, Zero, Zero, Zero, DefaultPeriodsPerYear)

\* valid cost parameters: no cost, each component alone, all together
CostProfiles ==
    {NoRates,
     Rates(R(100), Zero, Zero, Zero, DefaultPeriodsPerYear),
     Rates(Zero, R(50), Zero, Zero, DefaultPeriodsPerYear),
     Rates(Zero, Zero, R(200), Zero, DefaultPeriodsPerYear),
     Rates(Zero, Zero, Zero, Q(1, 10), 2),
     Rates(Zero, Zero, Zero, Q(1, 10), 5),
     Rates(R(100), R(50), R(200), Q(1, 10), 5)}

\* cost parameters the cost model rejects
BadCostProfiles ==
    {Rates(R(-100), Zero, Zero, Zero, DefaultPeriodsPerYear),
     Rates(Zero, R(-50), Zero, Zero, DefaultPeriodsPerYear),
     Rates(Zero, Zero, R(-200), Zero, DefaultPeriodsPerYear),
     Rates(Zero, Zero, Zero, Q(-1, 10), 5),
     Rates(Zero, Zero, Zero, Zero, 0),
     Rates(Zero, Zero, Zero, Zero, -1)}

NoCostIn ==
    [pos_exec |-> [index |-> <<>>, values |-> <<>>],
     turnover |-> [index |-> <<>>, values |-> <<>>],
     active_return_bar |-> [index |-> <<>>, values |-> <<>>],
     model |-> NoRates]

InitLocals ==
    /\ cfg = <<>>
    /\ df = NoFrame
    /\ active_return_bar = <<>>
    /\ metrics = <<>>
    /\ err = "none"
    /\ cost_out = <<>>

\* backtest_positions on valid configurations: prices, signals, price mode,
\* lag and cost parameters vary
InitLedger ==
    /\ pc = "call"
    /\ \E n \in 0..MaxBars : data \in Frames(AllCols, n, PriceBars, Signals)
    /\ \E mode \in _VALID_PRICE_MODE, lag \in {0, 1}, rates \in CostProfiles :
          args = Args(<<Config(mode, lag, rates)>>, "both", <<>>, "order_proxy_flip2", Zero)
    /\ cost_in = NoCostIn
    /\ InitLocals
    /\ InitNoTrades
    /\ InitNoStats

MaxLag == MaxBars + 1

OneBar == {<<R(1), R(2)>>}

\* backtest_positions on valid configurations: signals, lag, side filter,
\* rounding and order policy vary
InitPositions ==
    /\ pc = "call"
    /\ \E n \in 0..MaxBars : data \in Frames(AllCols, n, OneBar, FineSignals)
    /\ \E lag \in 0..MaxLag, side \in _VALID_SIDE, rnd \in {<<>>, <<0>>},
          policy \in _VALID_ORDER_POLICY :
          args = Args(<<Config("open_to_open", lag, NoRates)>>, side, rnd, policy, Zero)
    /\ cost_in = NoCostIn
    /\ InitLocals
    /\ InitNoTrades
    /\ InitNoStats

\* backtest_positions on any configuration and schema, valid or not, with or
\* without a config object
InitValidation ==
    /\ pc = "call"
    /\ \E n \in 0..MaxValBars, cols \in SUBSET AllCols :
          data \in Frames(cols, n, OneBar, {R(1)})
    /\ \E side \in _VALID_SIDE \cup {"flat"}, policy \in _VALID_ORDER_POLICY \cup {"fills"} :
          \/ \E mode \in _VALID_PRICE_MODE \cup {"high_to_low"}, lag \in {-1, 1},
                rates \in {NoRates} \cup BadCostProfiles :
                args = Args(<<Config(mode, lag, rates)>>, side, <<>>, policy, Zero)
          \/ \E cost_bps \in {Zero, R(100), R(-100)} :
                args = Args(<<>>, side, <<>>, policy, cost_bps)
    /\ cost_in = NoCostIn
    /\ InitLocals
    /\ InitNoTrades
    /\ InitNoStats

NextBacktest ==
    \/ ValidateConfig
    \/ ValidateInputs
    \/ BuildPositions
    \/ ForwardReturns
    \/ ApplyCosts
    \/ Finish

Spec == InitLedger /\ [][NextBacktest]_vars

SpecPos == InitPositions /\ [][NextBacktest]_vars

SpecVal == InitValidation /\ [][NextBacktest]_vars

LegacyCosts == {Zero, R(50), R(100)}

\* backtest_positions called the legacy way, with cost_bps and no config
\* object, and with a config object built from a commission alone
InitLegacy ==
    /\ pc = "call"
    /\ \E n \in 0..MaxBars : data \in Frames(AllCols, n, PriceBars, Signals)
    /\ \E c \in LegacyCosts, side \in {"both", "short"} :
          \/ args = Args(<<>>, side, <<>>, "order_proxy_flip2", c)
          \/ args = Args(<<Config("open_to_open", 1, Rates(c, Zero, Zero, Zero,
                                                           DefaultPeriodsPerYear))>>,
                         side, <<>>, "order_proxy_flip2", Zero)
    /\ cost_in = NoCostIn
    /\ InitLocals
    /\ InitNoTrades
    /\ InitNoStats

SpecLegacy == InitLegacy /\ [][NextBacktest]_vars

\* configurations that differ in slippage_bps, alone or on top of a commission
SlippageProfiles ==
    {NoRates,
     Rates(Zero, R(50), Zero, Zero, DefaultPeriodsPerYear),
     Rates(R(100), R(50), Zero, Zero, DefaultPeriodsPerYear)}

InitSlippage ==
    /\ pc = "call"
    /\ \E n \in 0..MaxBars : data \in Frames(AllCols, n, PriceBars, Signals)
    /\ \E mode \in _VALID_PRICE_MODE, lag \in {0, 1}, rates \in SlippageProfiles :
          args = Args(<<Config(mode, lag, rates)>>, "both", <<>>, "order_proxy_flip2", Zero)
    /\ cost_in = NoCostIn
    /\ InitLocals
    /\ InitNoTrades
    /\ InitNoStats

SpecSlippage == InitSlippage /\ [][NextBacktest]_vars

\* index labels 1..n: a series that does not share the RangeIndex
OtherIndex(n) == [t \in 1..n |-> t]

CostTurnovers == {R(-1), R(0), R(2)}

\* apply_execution_costs on any three series and any model
InitCosts ==
    /\ pc = "call_costs"
    /\ \E n \in 0..MaxCostBars :
          \E p \in Seqs(Signals, n), tv \in Seqs(CostTurnovers, n), a \in Seqs(BOOLEAN, n),
             model \in CostProfiles \cup BadCostProfiles :
             \/ cost_in = [pos_exec |-> [index |-> RangeIndex(n), values |-> p],
                           turnover |-> [index |-> RangeIndex(n), values |-> tv],
                           active_return_bar |-> [index |-> RangeIndex(n), values |-> a],
                           model |-> model]
             \/ /\ model = NoRates
                /\ \E it \in {RangeIndex(n), OtherIndex(n)},
                      ia \in {RangeIndex(n), OtherIndex(n)} :
                      cost_in = [pos_exec |-> [index |-> RangeIndex(n), values |-> p],
                                 turnover |-> [index |-> it, values |-> tv],
                                 active_return_bar |-> [index |-> ia, values |-> a],
                                 model |-> model]
    /\ data = NoFrame
    /\ args = Args(<<>>, "long", <<>>, "order_proxy_flip2", Zero)
    /\ InitLocals
    /\ InitNoTrades
    /\ InitNoStats

NextCosts == CallApplyExecutionCosts

SpecCost == InitCosts /\ [][NextCosts]_vars

----------------------------------------------------------------------------
(* Inputs of build_trades, trade_stats and performance_report *)

MaxTradeBars == 3

MaxTrades == 3

InitNoEngine ==
    /\ data = NoFrame
    /\ args = Args(<<>>, "both", <<>>, "order_proxy_flip2", Zero)
    /\ cost_in = NoCostIn
    /\ InitLocals

\* positions of the ledger: flat, short, long, and a larger long, so that a
\* position can change without changing side
TradePositions == {R(-1), R(0), R(1), R(2)}

\* a bar's <<Open, gross_strat_ret, net_strat_ret>>
LedgerBars == {<<R(1), Q(1, 2), Q(1, 4)>>, <<R(2), Q(-1, 2), Q(-1, 2)>>}

LedgerCols == {"pos", "Open", "gross_strat_ret", "net_strat_ret"}

Ledger(cols, index, pos, b) ==
    [index |-> index,
     col   |-> [c \in cols |->
                   IF c = "pos" THEN pos
                   ELSE [t \in 1..Len(index) |->
                            b[t][IF c = "Open" THEN 1
                                 ELSE IF c = "gross_strat_ret" THEN 2 ELSE 3]]]]

\* the labels n-1..0: a ledger handed over latest bar first
ReversedIndex(n) == [t \in 1..n |-> n - t]

Call(strict, close_at_end, datetime, reversed) ==
    [strict |-> strict, close_at_end |-> close_at_end, datetime |-> datetime,
     reversed |-> reversed]

\* strict and close_at_end in every combination on the default index; a
\* DatetimeIndex and a descending index with the defaults
Calls ==
    {Call(s, c, FALSE, FALSE) : s \in BOOLEAN, c \in BOOLEAN} \cup
    {Call(TRUE, TRUE, TRUE, FALSE), Call(TRUE, TRUE, FALSE, TRUE)}

\* build_trades on any ledger with a unique index, with or without the
\* columns it needs
InitTrades ==
    /\ pc = "trades_call"
    /\ \E n \in 0..MaxTradeBars :
          \E pos \in Seqs(TradePositions, n), b \in Seqs(LedgerBars, n) :
             \/ \E call \in Calls :
                   bt = [frame |-> Ledger(LedgerCols,
                                          IF call.reversed THEN ReversedIndex(n)
                                          ELSE RangeIndex(n), pos, b),
                         datetime |-> call.datetime, strict |-> call.strict,
                         close_at_end |-> call.close_at_end]
             \/ /\ n <= 1
                /\ \E cols \in SUBSET LedgerCols :
                      bt = [frame |-> Ledger(cols, RangeIndex(n), pos, b),
                            datetime |-> FALSE, strict |-> TRUE, close_at_end |-> TRUE]
    /\ tl = NoTradeLocals
    /\ trades_df = <<>>
    /\ InitNoStats
    /\ InitNoEngine

NextTrades ==
    \/ build_trades_enter
    \/ build_trades_scan
    \/ build_trades_close_at_end
    \/ build_trades_return

SpecTrades == InitTrades /\ [][NextTrades]_vars

\* a trade's <<trade_ret_net, bars_held>>; time_held, when the frame has
\* it, is bars_held days
TradeRows == {<<Q(1, 2), 1>>, <<Q(1, 4), 2>>, <<Q(-1, 2), 1>>, <<Q(-1, 4), 3>>, <<Zero, 2>>}

TradesInput(cols, rows) ==
    [columns |-> cols,
     rows    |-> [i \in 1..Len(rows) |->
                     [c \in cols |-> IF c = "trade_ret_net" THEN rows[i][1] ELSE rows[i][2]]]]

StatsColumns ==
    {{"trade_ret_net", "bars_held"}, {"trade_ret_net", "bars_held", "time_held"},
     {"bars_held"}}

\* the bar returns handed to performance_report, with and without an
\* equity column of the caller's
PerfFrames ==
    {[index |-> RangeIndex(0), col |-> [c \in {"net_strat_ret"} |-> <<>>]],
     [index |-> RangeIndex(1), col |-> [c \in {"net_strat_ret"} |-> <<Q(1, 4)>>]],
     [index |-> RangeIndex(2), col |-> [c \in {"net_strat_ret"} |-> <<Q(1, 4), Q(-1, 2)>>]],
     [index |-> RangeIndex(2),
      col   |-> [c \in {"net_strat_ret", "equity"} |->
                    IF c = "equity" THEN <<R(2), R(3)>> ELSE <<Q(1, 4), Q(-1, 2)>>]]}

\* the report of trade_stats, no report, or a dict without a win rate
PerfIns ==
    {[frame |-> f, hand_stats |-> h, report |-> r] :
        f \in PerfFrames,
        h \in BOOLEAN,
        r \in {<<>>, <<[n_trades |-> 0]>>}}

\* trade_stats on None, on an empty frame and on any trades, followed by
\* performance_report
InitStats ==
    /\ pc = "stats_call"
    /\ \/ stats_in = <<>>
       \/ \E n \in 0..MaxTrades, cols \in StatsColumns :
             \E rows \in Seqs(TradeRows, n) : stats_in = <<TradesInput(cols, rows)>>
    /\ stats = <<>>
    /\ perf_in \in {x \in PerfIns : x.hand_stats => x.report = <<>>}
    /\ perf = <<>>
    /\ InitNoTrades
    /\ InitNoEngine

NextStats ==
    \/ call_trade_stats
    \/ call_performance_report

SpecStats == InitStats /\ [][NextStats]_vars

\* a call of any of the five operations
InitCalls == InitValidation \/ InitCosts \/ InitTrades \/ InitStats

NextCalls == NextBacktest \/ NextCosts \/ NextTrades \/ NextStats

SpecCalls == InitCalls /\ [][NextCalls]_vars

----------------------------------------------------------------------------
(* Properties of the ledger returned by backtest_positions *)

NBars == Len(df.index)
Bar == 1..NBars
HasCol(c) == c \in DOMAIN df.col
Returned == pc = "returned" /\ metrics # <<>>
TheCfg == cfg[1]

\* pos_exec of the bar before t, 0 before the first bar
PrevPos(t) == IF t = 1 THEN Zero ELSE df.col["pos_exec"][t - 1]

\* C1: in the ledger returned, ret_net[t] = ret_gross[t] - ret_cost[t] at
\* every bar t
C1_NetIsGrossMinusCost ==
    Returned =>
        \A t \in Bar :
            df.col["ret_net"][t] = RSub(df.col["ret_gross"][t], df.col["ret_cost"][t])

\* a returned ledger with a bar whose gross return and cost are both nonzero
C1_Witness ==
    /\ Returned
    /\ \E t \in Bar : /\ RNe(df.col["ret_gross"][t], Zero)
                      /\ RLt(Zero, df.col["ret_cost"][t])
                      /\ RNe(df.col["ret_net"][t], df.col["ret_gross"][t])

\* C2: with signal_lag_bars = k, pos_exec[t] = pos_target[t-k] for every bar
\* t >= k and pos_exec[t] = 0 for every bar t < k (bars counted from 0)
C2_LagShift ==
    HasCol("pos_exec") =>
        \A t \in Bar :
            LET k == TheCfg.signal_lag_bars
            IN  IF t - 1 >= k
                THEN df.col["pos_exec"][t] = df.col["pos_target"][t - k]
                ELSE df.col["pos_exec"][t] = Zero

\* a ledger with lag 2 whose third bar executes the first bar's nonzero
\* target while the target of the third bar itself is different
C2_Witness ==
    /\ Returned
    /\ TheCfg.signal_lag_bars = 2
    /\ NBars = 3
    /\ RNe(df.col["pos_target"][1], Zero)
    /\ df.col["pos_exec"][3] = df.col["pos_target"][1]
    /\ df.col["pos_target"][3] # df.col["pos_target"][1]

\* C3: the final bar of every non-empty ledger returned has ret_gross = 0,
\* ret_cost = 0 and all four cost components 0
C3_FinalBarZero ==
    (Returned /\ NBars > 0) =>
        /\ df.col["ret_gross"][NBars] = Zero
        /\ df.col["ret_cost"][NBars] = Zero
        /\ df.col["cost_commission"][NBars] = Zero
        /\ df.col["cost_spread"][NBars] = Zero
        /\ df.col["cost_slippage"][NBars] = Zero
        /\ df.col["cost_borrow"][NBars] = Zero

\* a returned ledger, every cost rate positive, whose final bar is short and
\* has turnover, and whose earlier bar did pay costs
C3_Witness ==
    /\ Returned
    /\ NBars >= 2
    /\ RLt(Zero, TheCfg.commission_bps) /\ RLt(Zero, TheCfg.borrow_cost_annual)
    /\ RLt(df.col["pos_exec"][NBars], Zero)
    /\ RLt(Zero, df.col["turnover"][NBars])
    /\ RLt(Zero, df.col["ret_cost"][NBars - 1])

\* C4: turnover[t] = |pos_exec[t] - pos_exec[t-1]| with pos_exec[-1] = 0, and
\* turnover[t] >= 0, at every bar
C4_TurnoverIsAbsChange ==
    HasCol("turnover") =>
        \A t \in Bar :
            /\ df.col["turnover"][t] = RAbs(RSub(df.col["pos_exec"][t], PrevPos(t)))
            /\ RLe(Zero, df.col["turnover"][t])

\* a ledger that enters on its first bar and later reduces its position
C4_Witness ==
    /\ HasCol("turnover")
    /\ NBars >= 2
    /\ RLt(Zero, df.col["turnover"][1])
    /\ \E t \in Bar : t > 1 /\ RLt(df.col["pos_exec"][t], PrevPos(t))
                            /\ RLt(Zero, df.col["turnover"][t])

\* the equity of the bar before t, 1.0 before the first bar
PrevEquity(c, t) == IF t = 1 THEN One ELSE df.col[c][t - 1]

\* C5: equity_net[t] is the product of (1 + ret_net[s]) over s <= t and
\* equity_gross[t] that of (1 + ret_gross[s]), seeded at 1.0; the metrics
\* final_equity_net and final_equity_gross are the series' last values
C5_EquityIsRunningProduct ==
    Returned =>
        /\ \A t \in Bar :
            /\ df.col["equity_net"][t] =
                  RMul(PrevEquity("equity_net", t), RAdd(One, df.col["ret_net"][t]))
            /\ df.col["equity_gross"][t] =
                  RMul(PrevEquity("equity_gross", t), RAdd(One, df.col["ret_gross"][t]))
        /\ NBars > 0 =>
            /\ metrics[1].final_equity_net = df.col["equity_net"][NBars]
            /\ metrics[1].final_equity_gross = df.col["equity_gross"][NBars]

\* a returned ledger whose first two bars both have a nonzero net return
\* and whose net and gross equity end apart
C5_Witness ==
    /\ Returned
    /\ NBars = 3
    /\ RNe(df.col["ret_net"][1], Zero)
    /\ RNe(df.col["ret_net"][2], Zero)
    /\ df.col["equity_net"][3] # df.col["equity_gross"][3]
    /\ df.col["equity_net"][2] # df.col["equity_net"][1]

----------------------------------------------------------------------------
(* Properties of the cost model *)

CostReturned == pc = "returned" /\ cost_out # <<>>
CostBar == 1..Len(cost_in.pos_exec.values)
Costs == cost_out[1]
TheModel == cost_in.model

\* C6: on every active bar cost_commission = turnover*commission_bps/10000,
\* cost_spread = turnover*(spread_bps/2)/10000 and cost_slippage =
\* turnover*slippage_bps/10000; on every inactive bar all components are 0;
\* ret_cost is the sum of the four components on every bar
C6_CostComponents ==
    CostReturned =>
        \A t \in CostBar :
            LET tv == cost_in.turnover.values[t]
            IN  /\ cost_in.active_return_bar.values[t] =>
                    /\ Costs.cost_commission[t] =
                          RDiv(RMul(tv, TheModel.commission_bps), R(10000))
                    /\ Costs.cost_spread[t] =
                          RDiv(RMul(tv, RDiv(TheModel.spread_bps, R(2))), R(10000))
                    /\ Costs.cost_slippage[t] =
                          RDiv(RMul(tv, TheModel.slippage_bps), R(10000))
                /\ ~cost_in.active_return_bar.values[t] =>
                    /\ Costs.cost_commission[t] = Zero
                    /\ Costs.cost_spread[t] = Zero
                    /\ Costs.cost_slippage[t] = Zero
                    /\ Costs.cost_borrow[t] = Zero
                /\ Costs.ret_cost[t] =
                      RAdd(Costs.cost_commission[t],
                           RAdd(Costs.cost_spread[t],
                                RAdd(Costs.cost_slippage[t], Costs.cost_borrow[t])))

\* a returned cost frame with an active bar paying all four components and
\* an inactive bar that has turnover and is short
C6_Witness ==
    /\ CostReturned
    /\ \E t \in CostBar :
          /\ cost_in.active_return_bar.values[t]
          /\ RLt(Zero, Costs.cost_commission[t]) /\ RLt(Zero, Costs.cost_spread[t])
          /\ RLt(Zero, Costs.cost_slippage[t]) /\ RLt(Zero, Costs.cost_borrow[t])
    /\ \E t \in CostBar :
          /\ ~cost_in.active_return_bar.values[t]
          /\ RLt(Zero, cost_in.turnover.values[t])
          /\ RLt(cost_in.pos_exec.values[t], Zero)
          /\ RLt(Zero, TheModel.spread_bps)

RMin(x, y) == IF RLt(y, x) THEN y ELSE x

BorrowRate == RDiv(TheCfg.borrow_cost_annual, R(TheCfg.periods_per_year))

\* C7: cost_borrow[t] = |min(pos_exec[t], 0)| * borrow_cost_annual /
\* periods_per_year on every active bar, whatever the turnover; it is 0 on
\* every bar with pos_exec >= 0 and on every inactive bar, and positive on
\* every active bar with pos_exec < 0 when the borrow rate is positive
C7_BorrowOnShortOnly ==
    Returned =>
        \A t \in Bar :
            LET pos == df.col["pos_exec"][t]
                b == df.col["cost_borrow"][t]
            IN  /\ active_return_bar[t] => b = RMul(RAbs(RMin(pos, Zero)), BorrowRate)
                /\ (RLe(Zero, pos) \/ ~active_return_bar[t]) => b = Zero
                /\ (active_return_bar[t] /\ RLt(pos, Zero)
                        /\ RLt(Zero, TheCfg.borrow_cost_annual)) => RLt(Zero, b)

\* a returned ledger, borrow rate positive, with a short active bar without
\* turnover that pays borrow and a short final bar that pays none
C7_Witness ==
    /\ Returned
    /\ RLt(Zero, TheCfg.borrow_cost_annual)
    /\ \E t \in Bar : /\ active_return_bar[t]
                      /\ RLt(df.col["pos_exec"][t], Zero)
                      /\ df.col["turnover"][t] = Zero
                      /\ RLt(Zero, df.col["cost_borrow"][t])
    /\ \E t \in Bar : /\ ~active_return_bar[t]
                      /\ RLt(df.col["pos_exec"][t], Zero)
                      /\ df.col["cost_borrow"][t] = Zero

AllCostsNonNegative ==
    \A t \in CostBar :
        /\ RLe(Zero, Costs.cost_commission[t])
        /\ RLe(Zero, Costs.cost_spread[t])
        /\ RLe(Zero, Costs.cost_slippage[t])
        /\ RLe(Zero, Costs.cost_borrow[t])
        /\ RLe(Zero, Costs.ret_cost[t])

\* C8 as stated: for every valid model and every same-index input triple
\* every cost component and ret_cost is >= 0 on every bar
C8_NonNegativeForAnyTriple == CostReturned => AllCostsNonNegative

\* C8, amended: for every valid model and every same-index input triple
\* whose turnover is >= 0 on every bar, every cost component and ret_cost is
\* >= 0 on every bar
C8_NonNegativeForNonNegTurnover ==
    (CostReturned /\ \A t \in CostBar : RLe(Zero, cost_in.turnover.values[t]))
        => AllCostsNonNegative

\* a returned cost frame for nonnegative turnover with a positive cost
C8_Witness ==
    /\ CostReturned
    /\ \A t \in CostBar : RLe(Zero, cost_in.turnover.values[t])
    /\ \E t \in CostBar : RLt(Zero, Costs.cost_commission[t])
    /\ \E t \in CostBar : RLt(Zero, Costs.cost_borrow[t])

----------------------------------------------------------------------------
(* Order counting and validation *)

Changed(t) == RNe(df.col["pos_exec"][t], PrevPos(t))

\* the position's sign at bar t is the opposite of its sign the bar before
SignFlip(t) ==
    \/ RLt(PrevPos(t), Zero) /\ RLt(Zero, df.col["pos_exec"][t])
    \/ RLt(Zero, PrevPos(t)) /\ RLt(df.col["pos_exec"][t], Zero)

RECURSIVE TotalFrom(_, _)
TotalFrom(s, i) == IF i > Len(s) THEN 0 ELSE s[i] + TotalFrom(s, i + 1)

\* C9: under order_proxy_flip2, order_count[t] = (1 if pos_exec changed) +
\* (1 if its sign flipped); under rebalance_events, order_count[t] = 1 if
\* pos_exec changed, else 0; metrics order_events is the sum of order_count
C9_OrderCount ==
    HasCol("order_count") =>
        /\ \A t \in Bar :
            df.col["order_count"][t] =
                IF args.order_policy = "order_proxy_flip2"
                THEN astype_int(Changed(t)) + astype_int(SignFlip(t))
                ELSE astype_int(Changed(t))
        /\ Returned => metrics[1].order_events = TotalFrom(df.col["order_count"], 1)

\* a returned flip2 ledger with a direct sign flip counted as 2 orders and
\* an entry from flat counted as 1
C9_Witness ==
    /\ Returned
    /\ args.order_policy = "order_proxy_flip2"
    /\ \E t \in Bar : SignFlip(t) /\ df.col["order_count"][t] = 2
    /\ df.col["order_count"][1] = 1
    /\ metrics[1].order_events >= 3

\* the configuration line 106 resolves
Effective == IF args.config # <<>> THEN args.config[1] ELSE BacktestConfig(args.cost_bps)

BadConfig ==
    \/ Effective.price_mode \notin {"open_to_open", "close_to_close"}
    \/ Effective.signal_lag_bars < 0
    \/ Effective.periods_per_year <= 0

BadInputs ==
    \/ args.long_or_short \notin {"long", "short", "both"}
    \/ args.order_policy \notin {"order_proxy_flip2", "rebalance_events"}
    \/ "pos_raw" \notin DOMAIN data.col
    \/ Effective.price_mode = "open_to_open" /\ "Open" \notin DOMAIN data.col
    \/ Effective.price_mode = "close_to_close" /\ "Close" \notin DOMAIN data.col

\* C10: when the price mode is unknown, the lag negative, periods_per_year
\* <= 0, the side filter or the order policy unknown, pos_raw missing or the
\* price column of the chosen mode missing, every step of the call raises,
\* but for a passing validation of a good configuration, which the raising
\* validation of the inputs follows; no step copies the input or computes a
\* ledger column or a metric
C10_FailsBeforeProcessing ==
    [][(BadConfig \/ BadInputs) =>
          /\ df' = NoFrame /\ active_return_bar' = <<>> /\ metrics' = <<>>
          /\ \/ pc' = "raised" /\ err' # "none"
             \/ pc = "call" /\ ~BadConfig /\ pc' = "config_ok"]_vars

\* a call with a good configuration and a frame lacking the Close column
\* that close_to_close needs, raised with nothing copied
C10_Witness ==
    /\ pc = "raised"
    /\ err = "Missing required columns"
    /\ ~BadConfig
    /\ Effective.price_mode = "close_to_close"
    /\ DOMAIN data.col = {"Open", "pos_raw"}
    /\ NBars = 0 /\ Len(data.index) > 0
    /\ df = NoFrame

\* the model handed to apply_execution_costs breaks a parameter constraint
BadModel(m) ==
    \/ RLt(m.commission_bps, Zero)
    \/ RLt(m.slippage_bps, Zero)
    \/ RLt(m.spread_bps, Zero)
    \/ RLt(m.borrow_cost_annual, Zero)
    \/ m.periods_per_year <= 0

ConfigErrors ==
    {"commission_bps must be >= 0", "slippage_bps must be >= 0",
     "spread_bps must be >= 0", "borrow_cost_annual must be >= 0",
     "periods_per_year must be > 0"}

SameIndexError == "pos_exec, turnover, and active_return_bar must share the same index"

IndexMismatch ==
    \/ cost_in.pos_exec.index # cost_in.turnover.index
    \/ cost_in.pos_exec.index # cost_in.active_return_bar.index

\* C11: once apply_execution_costs has been called, a model with a negative
\* commission_bps, slippage_bps, spread_bps or borrow_cost_annual, or with
\* periods_per_year <= 0, has raised a configuration error and no cost
\* component exists; a valid model with three series that do not share one
\* index has raised the index error and no cost component exists
C11_RaisesOnBadModelOrIndex ==
    pc # "call_costs" =>
        /\ BadModel(cost_in.model) =>
              pc = "raised" /\ err \in ConfigErrors /\ cost_out = <<>>
        /\ ~BadModel(cost_in.model) /\ IndexMismatch =>
              pc = "raised" /\ err = SameIndexError /\ cost_out = <<>>

\* a call with a valid model whose active_return_bar alone carries another
\* index, over series with turnover to charge, raised without a cost frame
C11_Witness ==
    /\ pc = "raised"
    /\ err = SameIndexError
    /\ cost_out = <<>>
    /\ ~BadModel(cost_in.model)
    /\ cost_in.pos_exec.index = cost_in.turnover.index
    /\ cost_in.pos_exec.index # cost_in.active_return_bar.index
    /\ Len(cost_in.turnover.values) > 0

\* one of the four rates of the resolved configuration is negative
NegRate ==
    \/ RLt(Effective.commission_bps, Zero)
    \/ RLt(Effective.slippage_bps, Zero)
    \/ RLt(Effective.spread_bps, Zero)
    \/ RLt(Effective.borrow_cost_annual, Zero)

CostCols == {"cost_commission", "cost_spread", "cost_slippage", "cost_borrow", "ret_cost"}

\* C12 as stated: with a negative rate no position, turnover or return column
\* is ever computed and no ledger is returned
C12_NegativeRateRaisesBeforeProcessing ==
    NegRate =>
        /\ ~HasCol("pos_exec") /\ ~HasCol("turnover") /\ ~HasCol("ret_gross")
        /\ metrics = <<>>

\* C12: with a negative commission, slippage, spread or borrow rate,
\* backtest_positions never reaches the cost columns, the net return or the
\* return statement: no cost column is computed, no metrics, no ledger; and
\* when the call got as far as the gross return, the error raised is the
\* cost model's configuration error for the resolved rates
C12_NegativeRateNeverReturnsLedger ==
    NegRate =>
        /\ pc \notin {"costs", "returned"}
        /\ metrics = <<>>
        /\ \A c \in CostCols : ~HasCol(c)
        /\ ~HasCol("ret_net") /\ ~HasCol("equity")
        /\ pc = "returns" => err = "none"
        /\ pc = "raised" /\ HasCol("ret_gross") =>
              /\ err \in ConfigErrors
              /\ err = _validate_execution_model(ExecutionModel(Effective))

\* a call with a negative commission rate on a valid frame, raised by the
\* cost model after positions, turnover and gross return were computed
C12_Witness ==
    /\ pc = "raised"
    /\ NegRate
    /\ err = "commission_bps must be >= 0"
    /\ HasCol("pos_exec") /\ HasCol("turnover") /\ HasCol("ret_gross")
    /\ NBars > 0
    /\ metrics = <<>>

----------------------------------------------------------------------------
(* Properties of the trades returned by build_trades.  The bars are those *)
(* of the caller's ledger taken in index order: bar i carries the i-th    *)
(* smallest label.                                                        *)

TradesReturned == pc = "trades_returned" /\ trades_df # <<>>
Rows == trades_df[1].rows
NTrades == Len(Rows)
NLedger == Len(bt.frame.index)
LedgerBar == 1..NLedger

Label(i) ==
    CHOOSE l \in {bt.frame.index[j] : j \in LedgerBar} :
        Cardinality({j \in LedgerBar : bt.frame.index[j] < l}) = i - 1

BarOf(label) == CHOOSE i \in LedgerBar : Label(i) = label

Ledg(c, i) == bt.frame.col[c][CHOOSE j \in LedgerBar : bt.frame.index[j] = Label(i)]

Pos(i) == Ledg("pos", i)
PosBefore(i) == IF i = 1 THEN Zero ELSE Pos(i - 1)
PosChange(i) == RNe(Pos(i), PosBefore(i))
EntryBar(i) == PosChange(i) /\ RNe(Pos(i), Zero)
ExitBar(i) == PosChange(i) /\ RNe(PosBefore(i), Zero)
FlipBar(i) == RLt(RMul(Pos(i), PosBefore(i)), Zero)
LaterChange(i) == \E j \in (i + 1)..NLedger : PosChange(j)
SideOf(p) == IF RLt(Zero, p) THEN "long" ELSE "short"

\* C13 as stated: every flip bar has two trades in the output, the one
\* closed there followed by the one opened there, at one time and price,
\* the second on the side of the new position
C13_FlipEmitsTwoTrades ==
    TradesReturned =>
        \A i \in LedgerBar :
            FlipBar(i) =>
                \E k \in 1..(NTrades - 1) :
                    /\ Rows[k]["exit_time"] = Label(i)
                    /\ Rows[k + 1]["entry_time"] = Label(i)
                    /\ Rows[k]["exit_px"] = Rows[k + 1]["entry_px"]
                    /\ Rows[k + 1]["side"] = SideOf(Pos(i))

\* C13: the scan step at a flip bar closes the old trade and opens the new
\* one at that bar's label and price, the new one on the side of the new
\* position; the closed trade is in the output, followed by the new trade
\* when close_at_end holds or a later change of position closes it, and last
\* in the output otherwise, the new trade being left out
C13_FlipClosesAndOpens ==
    /\ pc = "trades_scan" /\ tl.k > 1 /\ FlipBar(BarOf(tl.points[tl.k - 1])) =>
          LET t == tl.points[tl.k - 1]
          IN  /\ Len(tl.trades) > 0 /\ tl.open_trade # <<>>
              /\ tl.trades[Len(tl.trades)]["exit_time"] = t
              /\ tl.trades[Len(tl.trades)]["exit_px"] = Ledg("Open", BarOf(t))
              /\ tl.open_trade[1]["entry_time"] = t
              /\ tl.open_trade[1]["entry_px"] = Ledg("Open", BarOf(t))
              /\ tl.open_trade[1]["side"] = SideOf(Pos(BarOf(t)))
    /\ TradesReturned =>
          \A i \in LedgerBar :
              FlipBar(i) =>
                  \E k \in 1..NTrades :
                      /\ Rows[k]["exit_time"] = Label(i)
                      /\ Rows[k]["exit_px"] = Ledg("Open", i)
                      /\ Rows[k]["side"] = SideOf(PosBefore(i))
                      /\ IF bt.close_at_end \/ LaterChange(i)
                         THEN /\ k < NTrades
                              /\ Rows[k + 1]["entry_time"] = Label(i)
                              /\ Rows[k + 1]["entry_px"] = Rows[k]["exit_px"]
                              /\ Rows[k + 1]["side"] = SideOf(Pos(i))
                              /\ Rows[k + 1]["pos_size"] = Pos(i)
                         ELSE k = NTrades

\* a ledger that goes long, flips short at a later bar and ends there: the
\* long trade closed at the flip and the short trade opened at it, at one
\* label and price
C13_Witness ==
    /\ TradesReturned
    /\ bt.close_at_end
    /\ \E i \in LedgerBar : FlipBar(i) /\ i > 1 /\ RLt(Pos(i), Zero)
    /\ NTrades = 2
    /\ Rows[1]["side"] = "long" /\ Rows[2]["side"] = "short"
    /\ Rows[1]["exit_time"] = Rows[2]["entry_time"]
    /\ Rows[1]["exit_px"] = Rows[2]["entry_px"]

\* C14: with close_at_end=True the number of trades returned is the number
\* of bars at which the position changes to a nonzero value, and the trades
\* are in ascending order of entry time
C14_OneTradePerEntry ==
    TradesReturned /\ bt.close_at_end =>
        /\ NTrades = Cardinality({i \in LedgerBar : EntryBar(i)})
        /\ \A k \in 1..(NTrades - 1) : Rows[k]["entry_time"] < Rows[k + 1]["entry_time"]

\* the positions 0, +1, -1: two trades, a long one then a short one
C14_Witness ==
    /\ TradesReturned
    /\ bt.close_at_end
    /\ NLedger = 3
    /\ Pos(1) = Zero /\ Pos(2) = R(1) /\ Pos(3) = R(-1)
    /\ NTrades = 2
    /\ Rows[1]["side"] = "long" /\ Rows[2]["side"] = "short"
    /\ Rows[1]["entry_time"] < Rows[2]["entry_time"]

\* the product of 1 + column c over the bars a+1..b (positions a..b-1
\* counted from 0), 1 when there is none
RECURSIVE Compound(_, _, _)
Compound(c, a, b) ==
    IF a >= b THEN One ELSE RMul(RAdd(One, Ledg(c, a + 1)), Compound(c, a + 1, b))

entry_index(row) == BarOf(row["entry_time"]) - 1
exit_index(row) == BarOf(row["exit_time"]) - 1

\* C15: every trade returned has trade_ret_net = prod(1 + net_strat_ret) - 1
\* and trade_ret_gross = prod(1 + gross_strat_ret) - 1 over the bars of
\* [entry_index, exit_index), a return of 0 over an empty range, and
\* bars_held = exit_index - entry_index
C15_TradeReturnCompounds ==
    TradesReturned =>
        \A k \in 1..NTrades :
            LET a == entry_index(Rows[k])
                b == exit_index(Rows[k])
            IN  /\ a <= b
                /\ Rows[k]["trade_ret_net"] = RSub(Compound("net_strat_ret", a, b), One)
                /\ Rows[k]["trade_ret_gross"] = RSub(Compound("gross_strat_ret", a, b), One)
                /\ a = b => Rows[k]["trade_ret_net"] = Zero /\ Rows[k]["trade_ret_gross"] = Zero
                /\ Rows[k]["bars_held"] = b - a

\* a trade held two bars whose net and gross returns differ, none of them
\* the return of a single bar, in an output that also has a trade opened
\* and closed at the last bar
C15_Witness ==
    /\ TradesReturned
    /\ \E k \in 1..NTrades :
          /\ Rows[k]["bars_held"] = 2
          /\ Rows[k]["trade_ret_net"] # Rows[k]["trade_ret_gross"]
          /\ \A i \in LedgerBar : Rows[k]["trade_ret_net"] # Ledg("net_strat_ret", i)
    /\ \E k \in 1..NTrades : Rows[k]["bars_held"] = 0 /\ Rows[k]["trade_ret_net"] = Zero

OpenAtEnd == NLedger > 0 /\ RNe(Pos(NLedger), Zero)

ExitBars == {i \in LedgerBar : ExitBar(i)}

\* the k-th bar that closes a trade, and the bar that opened the trade
\* closed at bar e
KthExit(k) == CHOOSE i \in ExitBars : Cardinality({j \in ExitBars : j < i}) = k - 1
EntryBefore(e) ==
    CHOOSE i \in 1..(e - 1) : EntryBar(i) /\ \A j \in (i + 1)..(e - 1) : ~EntryBar(j)
LastEntry == CHOOSE i \in LedgerBar : EntryBar(i) /\ \A j \in (i + 1)..NLedger : ~EntryBar(j)

\* row k is the trade the k-th closing bar closed, as the scan closed it
ClosedInScan(k) ==
    LET e == KthExit(k)
        a == EntryBefore(e)
    IN  /\ Rows[k]["entry_time"] = Label(a)
        /\ Rows[k]["entry_px"] = Ledg("Open", a)
        /\ Rows[k]["side"] = SideOf(Pos(a))
        /\ Rows[k]["pos_size"] = Pos(a)
        /\ Rows[k]["exit_time"] = Label(e)
        /\ Rows[k]["exit_px"] = Ledg("Open", e)
        /\ Rows[k]["bars_held"] = e - a
        /\ Rows[k]["trade_ret_net"] = RSub(Compound("net_strat_ret", a - 1, e - 1), One)
        /\ Rows[k]["trade_ret_gross"] = RSub(Compound("gross_strat_ret", a - 1, e - 1), One)

----------------------------------------------------------------------------
(* Properties of the reports of trade_stats and performance_report *)

StatsReturned == pc \in {"stats_returned", "perf_returned", "perf_raised"} /\ stats # <<>>
NoTradesIn == stats_in = <<>> \/ Len(stats_in[1].rows) = 0
HasReturns == ~NoTradesIn /\ "trade_ret_net" \in stats_in[1].columns
TradeRet(i) == stats_in[1].rows[i]["trade_ret_net"]
TradeNo == 1..Len(stats_in[1].rows)
Won(i) == RLt(Zero, TradeRet(i))
Lost(i) == RLt(TradeRet(i), Zero)

\* the length of the run of winning (or losing) trades that ends at trade i
RECURSIVE RunEndingAt(_, _)
RunEndingAt(i, winning) ==
    IF i = 0 THEN 0
    ELSE IF (winning /\ Won(i)) \/ (~winning /\ Lost(i)) THEN 1 + RunEndingAt(i - 1, winning)
    ELSE 0

LongestRun(winning) ==
    CHOOSE m \in 0..Len(stats_in[1].rows) :
        /\ \A i \in TradeNo : RunEndingAt(i, winning) <= m
        /\ m = 0 \/ \E i \in TradeNo : RunEndingAt(i, winning) = m

\* C17: the report of trade_stats on a non-empty trade sequence has
\* max_consecutive_wins, the length of the longest run of consecutive trades
\* with a positive net return, and max_consecutive_losses, the length of the
\* longest run of consecutive trades with a negative net return
C17_Streaks ==
    StatsReturned /\ HasReturns =>
        /\ "max_consecutive_wins" \in DOMAIN stats[1]
        /\ "max_consecutive_losses" \in DOMAIN stats[1]
        /\ stats[1]["max_consecutive_wins"] = LongestRun(TRUE)
        /\ stats[1]["max_consecutive_losses"] = LongestRun(FALSE)

StatsColumn(c) == [i \in TradeNo |-> R(stats_in[1].rows[i][c])]

\* C18: the report of trade_stats on a non-empty trade sequence has
\* avg_holding_bars, the mean of bars_held, and, when the trades have a
\* time_held column, avg_holding_days, the mean of time_held in days
C18_AvgHolding ==
    StatsReturned /\ HasReturns =>
        /\ "avg_holding_bars" \in DOMAIN stats[1]
        /\ stats[1]["avg_holding_bars"] = mean(StatsColumn("bars_held"))
        /\ "time_held" \in stats_in[1].columns =>
              /\ "avg_holding_days" \in DOMAIN stats[1]
              /\ stats[1]["avg_holding_days"] = mean(StatsColumn("time_held"))

FractionWon == Q(Cardinality({i \in TradeNo : Won(i)}), Len(stats_in[1].rows))

\* C19: trade_stats does not raise on None, on an empty trade sequence or
\* on trades with returns; on no trades n_trades = 0 and every ratio is
\* NaN; with no losing trade payoff, kelly, half_kelly and quarter_kelly
\* are NaN; kelly is NaN whenever payoff is not positive; otherwise
\* kelly = (payoff * p - (1 - p)) / payoff with p the win rate, the fraction
\* of trades with a positive return, and half_kelly and quarter_kelly are
\* its half and its quarter
C19_StatsNeverRaise ==
    pc # "stats_call" =>
        /\ NoTradesIn =>
              /\ pc # "stats_raised" /\ stats # <<>>
              /\ stats[1].n_trades = 0
              /\ \A key \in DOMAIN stats[1] \ {"n_trades"} : IsNaN(stats[1][key])
        /\ HasReturns =>
              /\ pc # "stats_raised" /\ stats # <<>>
              /\ stats[1].n_trades = Len(stats_in[1].rows)
              /\ stats[1].win_rate = FractionWon
              /\ (\A i \in TradeNo : ~Lost(i)) =>
                    /\ IsNaN(stats[1].payoff) /\ IsNaN(stats[1].kelly)
                    /\ IsNaN(stats[1].half_kelly) /\ IsNaN(stats[1].quarter_kelly)
              /\ IF RLt(Zero, stats[1].payoff)
                 THEN /\ stats[1].kelly =
                            RDiv(RSub(RMul(stats[1].payoff, FractionWon),
                                      RSub(One, FractionWon)), stats[1].payoff)
                      /\ stats[1].half_kelly = RDiv(stats[1].kelly, R(2))
                      /\ stats[1].quarter_kelly = RDiv(stats[1].kelly, R(4))
                 ELSE /\ IsNaN(stats[1].kelly)
                      /\ IsNaN(stats[1].half_kelly) /\ IsNaN(stats[1].quarter_kelly)

\* trades with winners and losers whose payoff is not 1: a Kelly fraction
\* that is a number, below zero, and not the payoff-weighted edge itself
C19_Witness ==
    /\ StatsReturned /\ HasReturns
    /\ \E i \in TradeNo : Won(i)
    /\ \E i \in TradeNo : Lost(i)
    /\ \E i \in TradeNo : TradeRet(i) = Zero
    /\ RNe(stats[1].payoff, One)
    /\ RLt(stats[1].kelly, Zero)
    /\ stats[1].quarter_kelly = RDiv(stats[1].kelly, R(4))

BarReturns == perf_in.frame.col["net_strat_ret"]
FractionOfBarsUp ==
    Q(Cardinality({t \in 1..Len(BarReturns) : RLt(Zero, BarReturns[t])}), Len(BarReturns))

\* C20: the WinRate of the report performance_report returns is the
\* win_rate of the trade_stats report handed to it, whatever the bar
\* returns are, and NaN when no report, or one without a win rate, is handed
C20_WinRateFromTradeStats ==
    pc = "perf_returned" =>
        /\ perf # <<>>
        /\ perf_in.hand_stats => perf[1].WinRate = stats[1].win_rate
        /\ ~perf_in.hand_stats => IsNaN(perf[1].WinRate)

\* a report for bars of which half are up, handed the statistics of trades
\* that all won: WinRate 1
C20_Witness ==
    /\ pc = "perf_returned"
    /\ perf_in.hand_stats
    /\ HasReturns
    /\ stats[1].win_rate = One
    /\ perf[1].WinRate = One
    /\ FractionOfBarsUp = Q(1, 2)

----------------------------------------------------------------------------
(* Edge cases, aliases and frame conditions of backtest_positions *)

TradeDays == Cardinality({t \in Bar : RLt(Zero, df.col["turnover"][t])})

\* C21: a call on a frame with the required columns and no row does not
\* raise and returns a ledger without rows and metrics with final_equity,
\* final_equity_net and final_equity_gross 1 and avg_daily_turnover,
\* active_day_frac, notional_per_trade_day and avg_cost_bps_realized 0; a
\* returned ledger without a bar of positive turnover has
\* notional_per_trade_day 0
C21_EmptyLedgerMetrics ==
    /\ Len(data.index) = 0 => pc # "raised" /\ err = "none"
    /\ Returned /\ Len(data.index) = 0 =>
          /\ NBars = 0
          /\ \A c \in DOMAIN df.col : df.col[c] = <<>>
          /\ metrics[1].final_equity = One
          /\ metrics[1].final_equity_net = One
          /\ metrics[1].final_equity_gross = One
          /\ metrics[1].avg_daily_turnover = Zero
          /\ metrics[1].active_day_frac = Zero
          /\ metrics[1].notional_per_trade_day = Zero
          /\ metrics[1].avg_cost_bps_realized = Zero
    /\ Returned /\ TradeDays = 0 =>
          /\ metrics[1].trade_days = 0
          /\ metrics[1].notional_per_trade_day = Zero

\* a call with costs configured on a frame without rows, returned
C21_Witness ==
    /\ Returned
    /\ Len(data.index) = 0
    /\ NBars = 0
    /\ RLt(Zero, TheCfg.commission_bps) /\ RLt(Zero, TheCfg.borrow_cost_annual)
    /\ metrics[1].final_equity = One
    /\ metrics[1].notional_per_trade_day = Zero

AliasPairs ==
    {<<"pos", "pos_exec">>, <<"gross_strat_ret", "ret_gross">>,
     <<"net_strat_ret", "ret_net">>, <<"cost", "ret_cost">>, <<"equity", "equity_net">>}

\* C22: in the ledger returned, pos = pos_exec, gross_strat_ret = ret_gross,
\* net_strat_ret = ret_net, cost = ret_cost and equity = equity_net at every
\* bar
C22_AliasesInSync ==
    Returned =>
        \A a \in AliasPairs :
            /\ HasCol(a[1]) /\ HasCol(a[2])
            /\ Len(df.col[a[1]]) = NBars
            /\ \A t \in Bar : df.col[a[1]][t] = df.col[a[2]][t]

\* a returned ledger of three bars whose position, returns, cost and equity
\* all differ from bar to bar
C22_Witness ==
    /\ Returned
    /\ NBars = 3
    /\ df.col["pos"][1] # df.col["pos"][2]
    /\ df.col["net_strat_ret"][1] # df.col["net_strat_ret"][2]
    /\ df.col["gross_strat_ret"][1] # df.col["net_strat_ret"][1]
    /\ RLt(Zero, df.col["cost"][1])
    /\ df.col["equity"][1] # df.col["equity"][2]

AskedCommission ==
    IF args.config = <<>> THEN args.cost_bps ELSE args.config[1].commission_bps

\* C24: a call without a config object and with cost_bps = c, and a call
\* with BacktestConfig(commission_bps = c), return the same ledger, that of
\* the default configuration with commission c and every other rate zero:
\* same net return, equity and cost at every bar, the cost being commission
\* alone
C24_LegacyCostIsCommission ==
    Returned =>
        LET c == AskedCommission
            l == backtest_positions(
                     data,
                     Config("open_to_open", 1,
                            Rates(c, Zero, Zero, Zero, DefaultPeriodsPerYear)),
                     args.long_or_short, args.round_pos_decimals)
        IN  /\ df.col["ret_net"] = l.ret_net
            /\ df.col["net_strat_ret"] = l.ret_net
            /\ df.col["equity_net"] = l.equity_net
            /\ df.col["equity"] = l.equity_net
            /\ df.col["ret_cost"] = df.col["cost_commission"]
            /\ df.col["cost_commission"] = l.cost_commission
            /\ \A t \in Bar : /\ df.col["cost_spread"][t] = Zero
                              /\ df.col["cost_slippage"][t] = Zero
                              /\ df.col["cost_borrow"][t] = Zero

\* a legacy call with cost_bps = 100 whose ledger charges the commission
\* on a bar and ends below the gross equity
C24_Witness ==
    /\ Returned
    /\ args.config = <<>>
    /\ args.cost_bps = R(100)
    /\ \E t \in Bar : df.col["cost_commission"][t] = Q(1, 100)
    /\ RLt(metrics[1].final_equity_net, metrics[1].final_equity_gross)

\* slippage rates a configuration is compared under
SlippageLevels == {Zero, R(50), R(100)}

\* the ledger of the same call under slippage_bps = bps, all else equal
LedgerAtSlippage(bps) ==
    backtest_positions(data, [TheCfg EXCEPT !.slippage_bps = bps],
                       args.long_or_short, args.round_pos_decimals)

\* equity_net.iloc[-1], 1.0 for an empty ledger (backtest.py:159)
FinalEquity(equity) == IF Len(equity) = 0 THEN One ELSE equity[Len(equity)]

HigherSlippage == {bps \in SlippageLevels : RLt(TheCfg.slippage_bps, bps)}

\* a bar with a realizable forward return and nonzero turnover
ActiveTurnoverBar(t) ==
    /\ active_return_bar[t]
    /\ RNe(df.col["turnover"][t], Zero)

\* every bar keeps a positive equity factor 1 + ret_net
StaysSolvent(ret_net) ==
    \A t \in 1..Len(ret_net) : RLt(Zero, RAdd(One, ret_net[t]))

\* C25 as stated: a higher slippage_bps gives a strictly lower final net
\* equity when some active bar has nonzero turnover, and never a higher one
\* otherwise
C25_HigherSlippageStrictlyLowerEquity ==
    Returned =>
        \A bps \in HigherSlippage :
            LET e == FinalEquity(LedgerAtSlippage(bps).equity_net)
            IN  IF \E t \in Bar : ActiveTurnoverBar(t)
                THEN RLt(e, metrics[1].final_equity_net)
                ELSE RLe(e, metrics[1].final_equity_net)

\* C25 amended: when every bar's equity factor 1 + ret_net stays positive
\* under the higher slippage_bps, the final net equity is strictly lower
\* than under the lower one if some active bar has nonzero turnover; with
\* no such bar the two final equities are equal, positive factors or not
C25_HigherSlippageLowerEquityWhileSolvent ==
    Returned =>
        \A bps \in HigherSlippage :
            LET l == LedgerAtSlippage(bps)
                e == FinalEquity(l.equity_net)
            IN  IF \E t \in Bar : ActiveTurnoverBar(t)
                THEN StaysSolvent(l.ret_net) => RLt(e, metrics[1].final_equity_net)
                ELSE e = metrics[1].final_equity_net

\* a ledger charged 50 bps of slippage on an active bar with turnover that
\* stays solvent at 100 bps and ends lower there
C25_Witness ==
    /\ Returned
    /\ TheCfg.slippage_bps = R(50)
    /\ \E t \in Bar : ActiveTurnoverBar(t)
    /\ StaysSolvent(LedgerAtSlippage(R(100)).ret_net)
    /\ RLt(FinalEquity(LedgerAtSlippage(R(100)).equity_net), metrics[1].final_equity_net)
    /\ RLt(Zero, FinalEquity(LedgerAtSlippage(R(100)).equity_net))

\* row k is the trade force-closed at the end of the sample
ForceClosed(k) == bt.close_at_end /\ OpenAtEnd /\ k = NTrades

\* C26: every trade row returned has a boolean closed_by_end, True exactly
\* for the trade force-closed at the end of the sample and False for every
\* other trade
C26_ClosedByEndIsBoolean ==
    TradesReturned =>
        \A k \in 1..NTrades :
            /\ Rows[k]["closed_by_end"] \in {"True", "False"}
            /\ Rows[k]["closed_by_end"] = "True" <=> ForceClosed(k)

\* the same call with the other value of strict
OtherMode == [bt EXCEPT !.strict = ~@]

\* the scan is at a change point it has not yet handled
AtChangePoint == pc = "trades_scan" /\ tl.k <= Len(tl.points)

\* C27: at every change point of the scan a trade is open exactly when the
\* position before that change point is nonzero; no call raises the
\* inconsistent-state error, warns or creates a fallback trade, and the
\* call with the other value of strict ends the same way with the same
\* trades
C27_ScanNeverInconsistent ==
    /\ AtChangePoint =>
          (tl.open_trade # <<>> <=> RNe(loc_(tl.index, tl.prev, tl.points[tl.k]), Zero))
    /\ err # InconsistentState
    /\ tl.warnings = 0
    /\ \A i \in 1..Len(tl.trades) : "fallback_created" \notin DOMAIN tl.trades[i]
    /\ tl.open_trade # <<>> => "fallback_created" \notin DOMAIN tl.open_trade[1]
    /\ TradesReturned => /\ "fallback_created" \notin trades_df[1].columns
                         /\ build_trades(OtherMode) =
                               [err |-> "none", out |-> trades_df, warnings |-> 0]
    /\ pc = "trades_raised" => build_trades(OtherMode).err = err

\* a lenient call that closed a trade at a flip, opened the next one there
\* and closed that one at a later change point, without a warning
C27_Witness ==
    /\ TradesReturned
    /\ ~bt.strict
    /\ NTrades = 2
    /\ \E i \in LedgerBar : FlipBar(i) /\ Rows[1]["exit_time"] = Label(i)
                                        /\ Rows[2]["entry_time"] = Label(i)
    /\ Rows[2]["closed_by_end"] = "False"
    /\ tl.warnings = 0

\* bar i (0-based, in index order) lies in the window of row k
InWindow(i, k) == entry_index(Rows[k]) <= i /\ i < exit_index(Rows[k])

WindowsOf(i) == {k \in 1..NTrades : InWindow(i, k)}

\* C28: with close_at_end=True the windows [entry_index, exit_index) of the
\* trades returned follow one another without overlap (each exit_index is
\* at most the next entry_index), every bar before the final bar with a
\* nonzero position lies in exactly one window and no bar with a zero
\* position lies in any
C28_WindowsPartitionHeldBars ==
    TradesReturned /\ bt.close_at_end =>
        /\ \A k \in 1..NTrades : entry_index(Rows[k]) <= exit_index(Rows[k])
        /\ \A k \in 1..(NTrades - 1) : exit_index(Rows[k]) <= entry_index(Rows[k + 1])
        /\ \A j, k \in 1..NTrades :
              j # k => \A i \in 0..(NLedger - 1) : ~(InWindow(i, j) /\ InWindow(i, k))
        /\ \A i \in 0..(NLedger - 1) :
              IF RNe(Pos(i + 1), Zero) /\ i < NLedger - 1
              THEN Cardinality(WindowsOf(i)) = 1
              ELSE RNe(Pos(i + 1), Zero) \/ WindowsOf(i) = {}

\* a ledger of full length with a closed trade, a flat bar between two
\* windows and a trade held to the end
C28_Witness ==
    /\ TradesReturned
    /\ bt.close_at_end
    /\ NLedger = MaxTradeBars
    /\ NTrades >= 2
    /\ \E i \in LedgerBar : REq(Pos(i), Zero)
    /\ \E k \in 1..(NTrades - 1) : exit_index(Rows[k]) < entry_index(Rows[k + 1])
    /\ \E k \in 1..NTrades : exit_index(Rows[k]) - entry_index(Rows[k]) >= 1
    /\ OpenAtEnd

====
